---- MODULE Spec2Model ----
(***************************************************************************)
(* The Firestore REST client of functions/lib/firebase.js                  *)
(* (src/unnamed/part_003): the token cache of getAccessToken, the value    *)
(* codec, and the DocumentRef / CollectionRef operations, run against a    *)
(* document store that answers each request.                               *)
(***************************************************************************)
EXTENDS Integers, Sequences, FiniteSets, TLC

(***************************************************************************)
(* Bounds of the model.                                                    *)
(***************************************************************************)
MaxTicks == 3
MaxTokens == 2
MaxOps == 3
MaxLen == 2
MaxDepth == 2
MaxRefs == 3
MaxRequests == 3

(***************************************************************************)
(* Program constants.                                                      *)
(***************************************************************************)
NoToken == 0
ExpirySkewSeconds == 60
MsPerSecond == 1000

TickMs == 60 * MsPerSecond

\* Lifetimes (expires_in, seconds) the token endpoint may return.
ExpiresIns == {60, 120, 180}

Fields == {"a", "b"}
DocIds == {"d1"}
AutoIds == {"n1"}
AllIds == DocIds \cup AutoIds
CollectionName == "users"
ProjectId == "p"

(***************************************************************************)
(* Native (JavaScript) values.  A number is kept as twice its value so     *)
(* that a fractional part (one half) can be represented.                   *)
(***************************************************************************)
Null == [t |-> "null"]
Num(n) == [t |-> "number", x2 |-> 2 * n]
Str(s) == [t |-> "string", v |-> s]
Bool(b) == [t |-> "boolean", v |-> b]
NaN == [t |-> "number", nan |-> TRUE]

NativeVals == {Num(1), Str("x")}

\* Plain objects: field name -> native value, over every subset of Fields.
ObjsOver(K) == [K -> NativeVals]
Objs == UNION {ObjsOver(K) : K \in SUBSET Fields}

Keys(obj) == DOMAIN obj

(***************************************************************************)
(* The value codec.                                                        *)
(***************************************************************************)
DigitChar(d) ==
    CASE d = 0 -> "0" [] d = 1 -> "1" [] d = 2 -> "2" [] d = 3 -> "3"
      [] d = 4 -> "4" [] d = 5 -> "5" [] d = 6 -> "6" [] d = 7 -> "7"
      [] d = 8 -> "8" [] d = 9 -> "9"

DigitOf(c) ==
    CASE c = "0" -> 0 [] c = "1" -> 1 [] c = "2" -> 2 [] c = "3" -> 3
      [] c = "4" -> 4 [] c = "5" -> 5 [] c = "6" -> 6 [] c = "7" -> 7
      [] c = "8" -> 8 [] c = "9" -> 9 [] OTHER -> -1

RECURSIVE NatStr(_)
NatStr(n) == IF n < 10 THEN <<DigitChar(n)>>
             ELSE NatStr(n \div 10) \o <<DigitChar(n % 10)>>

\* String(n) of an integer n: a sequence of characters.
DecStr(n) == IF n < 0 THEN <<"-">> \o NatStr(-n) ELSE NatStr(n)

\* The longest prefix of digits of s, as a number; -1 when s starts with none.
RECURSIVE DigitsPrefix(_, _, _)
DigitsPrefix(s, i, acc) ==
    IF i > Len(s) \/ DigitOf(s[i]) < 0
    THEN (IF i = 1 THEN -1 ELSE acc)
    ELSE DigitsPrefix(s, i + 1, 10 * acc + DigitOf(s[i]))

\* parseInt(s) for a sequence of characters s.
ParseInt(s) ==
    LET neg == Len(s) > 0 /\ s[1] = "-"
        body == IF neg \/ (Len(s) > 0 /\ s[1] = "+") THEN Tail(s) ELSE s
        n == DigitsPrefix(body, 1, 0)
    IN IF n < 0 THEN NaN ELSE Num(IF neg THEN -n ELSE n)

IsInteger(value) == "x2" \in DOMAIN value /\ value.x2 % 2 = 0

\* Arrays, nested objects, and a value of another type (a function, whose
\* string conversion is its source text).
Arr(seq) == [t |-> "array", v |-> seq]
Obj(f) == [t |-> "object", v |-> f]
Fn(src) == [t |-> "function", src |-> src]
Undefined == [t |-> "undefined"]

\* An object literal without properties.
EmptyObject == [k \in {} |-> Null]

RECURSIVE toFirestoreValue(_)
RECURSIVE objectToDoc(_)
RECURSIVE parseFirestoreValue(_)
RECURSIVE docToObject(_)

\* toFirestoreValue with typeof value === 'object' tested before
\* Array.isArray: an array becomes a map of its indices.
toFirestoreValueObjectFirst(value) ==
    IF value.t = "null" \/ value.t = "undefined" THEN [nullValue |-> Null]
    ELSE IF value.t = "string" THEN [stringValue |-> value.v]
    ELSE IF value.t = "number"
         THEN (IF IsInteger(value)
               THEN [integerValue |-> DecStr(value.x2 \div 2)]
               ELSE [doubleValue |-> value])
    ELSE IF value.t = "boolean" THEN [booleanValue |-> value.v]
    ELSE IF value.t = "object" \/ value.t = "array"
         THEN [mapValue |-> [fields |-> objectToDoc(value.v).fields]]
    ELSE [stringValue |-> value.src]

toFirestoreValue(value) ==
    IF value.t = "null" \/ value.t = "undefined" THEN [nullValue |-> Null]
    ELSE IF value.t = "string" THEN [stringValue |-> value.v]
    ELSE IF value.t = "number"
         THEN (IF IsInteger(value)
               THEN [integerValue |-> DecStr(value.x2 \div 2)]
               ELSE [doubleValue |-> value])
    ELSE IF value.t = "boolean" THEN [booleanValue |-> value.v]
    ELSE IF value.t = "array"
         THEN [arrayValue |->
                  [values |-> [i \in 1 .. Len(value.v) |->
                                  toFirestoreValue(value.v[i])]]]
    ELSE IF value.t = "object"
         THEN [mapValue |-> [fields |-> objectToDoc(value.v).fields]]
    ELSE [stringValue |-> value.src]

objectToDoc(obj) == [fields |-> [k \in Keys(obj) |-> toFirestoreValue(obj[k])]]

\* parseFirestoreValue without the || [] guard: mapping over the missing
\* values of an arrayValue is a TypeError.
parseFirestoreValueUnguarded(value) ==
    IF "stringValue" \in DOMAIN value THEN Str(value.stringValue)
    ELSE IF "integerValue" \in DOMAIN value THEN ParseInt(value.integerValue)
    ELSE IF "doubleValue" \in DOMAIN value THEN value.doubleValue
    ELSE IF "booleanValue" \in DOMAIN value THEN Bool(value.booleanValue)
    ELSE IF "nullValue" \in DOMAIN value THEN Null
    ELSE IF "timestampValue" \in DOMAIN value THEN Str(value.timestampValue)
    ELSE IF "arrayValue" \in DOMAIN value
         THEN (IF "values" \in DOMAIN value.arrayValue
               THEN Arr([i \in 1 .. Len(value.arrayValue.values) |->
                            parseFirestoreValue(value.arrayValue.values[i])])
               ELSE [t |-> "TypeError"])
    ELSE IF "mapValue" \in DOMAIN value
         THEN LET d == docToObject(IF "fields" \in DOMAIN value.mapValue
                                   THEN [fields |-> value.mapValue.fields]
                                   ELSE EmptyObject)
              IN IF d.isNull THEN Null ELSE Obj(d.obj)
    ELSE Null

parseFirestoreValue(value) ==
    IF "stringValue" \in DOMAIN value THEN Str(value.stringValue)
    ELSE IF "integerValue" \in DOMAIN value THEN ParseInt(value.integerValue)
    ELSE IF "doubleValue" \in DOMAIN value THEN value.doubleValue
    ELSE IF "booleanValue" \in DOMAIN value THEN Bool(value.booleanValue)
    ELSE IF "nullValue" \in DOMAIN value THEN Null
    ELSE IF "timestampValue" \in DOMAIN value THEN Str(value.timestampValue)
    ELSE IF "arrayValue" \in DOMAIN value
         THEN LET values == IF "values" \in DOMAIN value.arrayValue
                            THEN value.arrayValue.values ELSE <<>>
              IN Arr([i \in 1 .. Len(values) |-> parseFirestoreValue(values[i])])
    ELSE IF "mapValue" \in DOMAIN value
         THEN LET d == docToObject(IF "fields" \in DOMAIN value.mapValue
                                   THEN [fields |-> value.mapValue.fields]
                                   ELSE EmptyObject)
              IN IF d.isNull THEN Null ELSE Obj(d.obj)
    ELSE Null

\* docToObject returning null for a fields mapping without entries too.
docToObjectEmptyNull(doc) ==
    IF "fields" \notin DOMAIN doc \/ DOMAIN doc.fields = {} THEN [isNull |-> TRUE]
    ELSE [isNull |-> FALSE,
          obj |-> [k \in DOMAIN doc.fields |-> parseFirestoreValue(doc.fields[k])]]

\* docToObject: null for a document without a fields mapping, else the
\* decoded object, wrapped so that both results are comparable.
docToObject(doc) ==
    IF "fields" \notin DOMAIN doc THEN [isNull |-> TRUE]
    ELSE [isNull |-> FALSE,
          obj |-> [k \in DOMAIN doc.fields |-> parseFirestoreValue(doc.fields[k])]]

(***************************************************************************)
(* The values given to the codec.                                          *)
(***************************************************************************)
Leaves == {Null, Str("a"), Str("USDT"), Num(42), Num(-7), Bool(TRUE)}

SeqsOver(S, n) == UNION {[1 .. k -> S] : k \in 0 .. n}
MapsOver(S) == UNION {[K -> S] : K \in SUBSET Fields}

\* Arrays and objects of leaves, the empty ones included.
Flat ==
    Leaves \cup {Arr(q) : q \in SeqsOver(Leaves, MaxLen)}
           \cup {Obj(f) : f \in MapsOver(Leaves)}

\* Values nested to depth d: a value one level shallower inside an array,
\* inside an object, or inside an object next to an empty array.
RECURSIVE ValsOfDepth(_)
ValsOfDepth(d) ==
    IF d = 0 THEN Leaves
    ELSE IF d = 1 THEN Flat
    ELSE LET P == ValsOfDepth(d - 1)
         IN P \cup {Arr(<<x>>) : x \in P}
              \cup {Obj([k \in {"a"} |-> x]) : x \in P}
              \cup {Obj([k \in Fields |-> IF k = "a" THEN x ELSE Arr(<<>>)]) : x \in P}

\* The values with a round trip: null, strings, integers, booleans, arrays
\* and nested maps.
RoundTripVals == ValsOfDepth(MaxDepth)

\* Values outside the round trip: absent, a number with a fractional part,
\* and a value of another type.
Half == [t |-> "number", x2 |-> 85]
OtherVals == {Undefined, Half, Fn("f"), Arr(<<Undefined, Half>>)}

CodecVals == RoundTripVals \cup OtherVals

Example ==
    [amount |-> Num(42), currency |-> Str("USDT"),
     tags |-> Arr(<<Str("a"), Str("b")>>)]

\* The mappings given to objectToDoc.
CodecObjs ==
    {Example, EmptyObject}
        \cup {[k \in {"a"} |-> x] : x \in Flat}
        \cup {[k \in Fields |-> IF k = "a" THEN x ELSE Obj(EmptyObject)] : x \in Flat}

\* Wire values as the store may send them: the encodings, a timestamp, an
\* arrayValue without values, a mapValue without fields, tags this client
\* does not know, and arrays and maps holding those.
BareWire ==
    {[timestampValue |-> "2024-01-01T00:00:00Z"],
     [arrayValue |-> EmptyObject], [mapValue |-> EmptyObject],
     [bytesValue |-> "AA=="], [referenceValue |-> "projects/p"],
     [geoPointValue |-> EmptyObject], EmptyObject}

WireVals ==
    BareWire
        \cup {toFirestoreValue(v) : v \in Flat \cup OtherVals}
        \cup {[arrayValue |-> [values |-> <<w>>]] : w \in BareWire}
        \cup {[mapValue |-> [fields |-> [k \in {"a"} |-> w]]] : w \in BareWire}

SupportedTags ==
    {"stringValue", "integerValue", "doubleValue", "booleanValue", "nullValue",
     "timestampValue", "arrayValue", "mapValue"}

CodecInit == [op |-> "none"]

(***************************************************************************)
(* State.                                                                  *)
(*   accessToken, tokenExpiry  the module-level token cache                *)
(*   now                       Date.now(), in milliseconds                 *)
(*   store                     the remote documents of the collection      *)
(*   last                      the last completed client operation         *)
(*   race                      getAccessToken calls in progress            *)
(*   batch                     a runTransaction call and its batch         *)
(*   codec                     a value given to the codec, and the results *)
(*   query                     the QueryRef objects built, and the last    *)
(*                             query executed                              *)
(*   firebaseConfig            the module-level credential                 *)
(*   app                       the requests the API handlers are serving   *)
(***************************************************************************)
VARIABLES accessToken, tokenExpiry, now, store, last, race, batch, codec,
          query, firebaseConfig, app

vars == <<accessToken, tokenExpiry, now, store, last, race, batch, codec,
          query, firebaseConfig, app>>

(***************************************************************************)
(* getAccessToken.  er is the token endpoint's answer, used on a miss.     *)
(***************************************************************************)
\* Token strings, numbered; the endpoint never reissues the cached one.
Tokens == 1 .. MaxTokens

\* A non-success answer: whether its body is JSON, and the body's
\* error_description ("" when it has none) and error.
Failure(json, description) ==
    [ok |-> FALSE, json |-> json, expires_in |-> 0, access_token |-> NoToken,
     error_description |-> description, error |-> "invalid_grant"]

ExchangeFailure == Failure(TRUE, "Invalid JWT Signature.")

ExchangeFailures ==
    {ExchangeFailure, Failure(TRUE, ""), Failure(FALSE, "")}

ExchangeResponses ==
    ExchangeFailures
        \cup {[ok |-> TRUE, json |-> TRUE, expires_in |-> e,
               access_token |-> t, error_description |-> "", error |-> ""] :
                  e \in ExpiresIns, t \in Tokens \ {accessToken}}

\* The message of the error thrown for a non-success answer er.
TokenError(er) ==
    IF ~er.json THEN "SyntaxError"
    ELSE "Failed to get access token: "
             \o (IF er.error_description # "" THEN er.error_description
                 ELSE er.error)

CacheValid == accessToken # NoToken /\ tokenExpiry > now

NewExpiryUnscaled(er) == now + (er.expires_in - ExpirySkewSeconds)

NewExpiry(er) == now + (er.expires_in - ExpirySkewSeconds) * MsPerSecond

getAccessTokenNoExpiry(er) ==
    IF accessToken # NoToken
    THEN [threw |-> FALSE, token |-> accessToken, exchanged |-> FALSE,
          accessToken |-> accessToken, tokenExpiry |-> tokenExpiry,
          lifetime |-> 0, error |-> "", upstream |-> ""]
    ELSE IF ~er.ok
    THEN [threw |-> TRUE, token |-> NoToken, exchanged |-> TRUE,
          accessToken |-> accessToken, tokenExpiry |-> tokenExpiry,
          lifetime |-> 0, error |-> TokenError(er),
          upstream |-> er.error_description]
    ELSE [threw |-> FALSE, token |-> er.access_token, exchanged |-> TRUE,
          accessToken |-> er.access_token, tokenExpiry |-> NewExpiry(er),
          lifetime |-> er.expires_in, error |-> "", upstream |-> ""]

\* The cache written from the answer before response.ok is looked at.
getAccessTokenEager(er) ==
    IF CacheValid
    THEN [threw |-> FALSE, token |-> accessToken, exchanged |-> FALSE,
          accessToken |-> accessToken, tokenExpiry |-> tokenExpiry,
          lifetime |-> 0, error |-> "", upstream |-> ""]
    ELSE IF ~er.ok
    THEN [threw |-> TRUE, token |-> NoToken, exchanged |-> TRUE,
          accessToken |-> NoToken, tokenExpiry |-> 0,
          lifetime |-> 0, error |-> TokenError(er),
          upstream |-> er.error_description]
    ELSE [threw |-> FALSE, token |-> er.access_token, exchanged |-> TRUE,
          accessToken |-> er.access_token, tokenExpiry |-> NewExpiry(er),
          lifetime |-> er.expires_in, error |-> "", upstream |-> ""]

getAccessToken(er) ==
    IF CacheValid
    THEN [threw |-> FALSE, token |-> accessToken, exchanged |-> FALSE,
          accessToken |-> accessToken, tokenExpiry |-> tokenExpiry,
          lifetime |-> 0, error |-> "", upstream |-> ""]
    ELSE IF ~er.ok
    THEN [threw |-> TRUE, token |-> NoToken, exchanged |-> TRUE,
          accessToken |-> accessToken, tokenExpiry |-> tokenExpiry,
          lifetime |-> 0, error |-> TokenError(er),
          upstream |-> er.error_description]
    ELSE [threw |-> FALSE, token |-> er.access_token, exchanged |-> TRUE,
          accessToken |-> er.access_token, tokenExpiry |-> NewExpiry(er),
          lifetime |-> er.expires_in, error |-> "", upstream |-> ""]

\* What an operation records about its getAccessToken call.
TokenCall(tk) ==
    [at |-> now, preToken |-> accessToken, preExpiry |-> tokenExpiry,
     exchanged |-> tk.exchanged, threw |-> tk.threw, token |-> tk.token,
     lifetime |-> tk.lifetime, error |-> tk.error, upstream |-> tk.upstream]

ApplyToken(tk) ==
    /\ accessToken' = tk.accessToken
    /\ tokenExpiry' = tk.tokenExpiry

(***************************************************************************)
(* The remote store.  A stored document is absent, or holds a (possibly    *)
(* empty) mapping of field name -> wire value.  rk is how the store        *)
(* answers one request: it processes it, rejects the token (401), fails    *)
(* with a JSON error body (500), or fails with a body that is not JSON.    *)
(***************************************************************************)
Absent == [exists |-> FALSE]
Stored(f) == [exists |-> TRUE, fields |-> f]

RespKinds == {"ok", "unauth", "error", "garbled"}

\* The answers that differ for an operation that never reads the body.
UnreadKinds == RespKinds \ {"garbled"}

ResourceName(id) ==
    <<"projects", ProjectId, "databases", "(default)", "documents",
      CollectionName, id>>

\* The JSON of a stored document: the fields key is omitted when empty.
DocJson(id, d) ==
    IF d.fields = <<>> THEN [name |-> ResourceName(id)]
    ELSE [name |-> ResourceName(id), fields |-> d.fields]

Response(status, json, body) ==
    [status |-> status, ok |-> status >= 200 /\ status <= 299,
     json |-> json, body |-> body]

ErrorBody(status) == [error |-> status]

\* The answer of a store that does not process the request.
Refusal(rk) ==
    IF rk = "unauth" THEN Response(401, TRUE, ErrorBody(401))
    ELSE IF rk = "error" THEN Response(500, TRUE, ErrorBody(500))
    ELSE Response(500, FALSE, ErrorBody(500))

\* PATCH: the stored document after a write of body under the field mask
\* given by the updateMask.fieldPaths query parameters (none: no mask).
Patched(d, fieldPaths, body) ==
    IF fieldPaths = {} THEN Stored(body)
    ELSE LET old == IF d.exists THEN d.fields ELSE <<>>
             keep == (DOMAIN old \ fieldPaths)
                         \cup (fieldPaths \cap DOMAIN body)
         IN Stored([k \in keep |->
                        IF k \in fieldPaths THEN body[k] ELSE old[k]])

\* The store's handling of one request; upsert is whether a masked PATCH of
\* a missing document creates it or is answered 404.
StoreHandle(st, req, rk, upsert) ==
    IF rk # "ok" THEN [store |-> st, resp |-> Refusal(rk)]
    ELSE IF req.method = "GET"
    THEN [store |-> st,
          resp |-> IF st[req.id].exists
                   THEN Response(200, TRUE, DocJson(req.id, st[req.id]))
                   ELSE Response(404, TRUE, ErrorBody(404))]
    ELSE IF req.method = "PATCH"
    THEN IF ~st[req.id].exists /\ req.fieldPaths # {} /\ ~upsert
         THEN [store |-> st, resp |-> Response(404, TRUE, ErrorBody(404))]
         ELSE LET d == Patched(st[req.id], req.fieldPaths, req.body.fields)
              IN [store |-> [st EXCEPT ![req.id] = d],
                  resp |-> Response(200, TRUE, DocJson(req.id, d))]
    ELSE IF req.method = "DELETE"
    THEN [store |-> [st EXCEPT ![req.id] = Absent],
          resp |-> Response(200, TRUE, <<>>)]
    ELSE \* POST: req.id is the id the store generates
         LET d == Stored(req.body.fields)
         IN [store |-> [st EXCEPT ![req.id] = d],
             resp |-> Response(200, TRUE, DocJson(req.id, d))]

(***************************************************************************)
(* The client: DocumentSnapshot, DocumentRef and CollectionRef.add.        *)
(***************************************************************************)
Returned(v) == [threw |-> FALSE, result |-> v]
Threw(e) == [threw |-> TRUE, result |-> [error |-> e]]

\* options.merge as a condition: false when options has no merge key.
MergeOption(options) == "merge" \in DOMAIN options /\ options.merge

OptionsSet == {<<>>, [merge |-> FALSE], [merge |-> TRUE]}

\* A DocumentSnapshot whose exists is !!doc.name: the document was found.
DocumentSnapshotByName(doc) ==
    [id |-> doc.id, exists |-> "name" \in DOMAIN doc,
     data |-> docToObject(doc)]

\* new DocumentSnapshot(doc, collection), with the value of data().
DocumentSnapshot(doc) ==
    [id |-> doc.id, exists |-> "fields" \in DOMAIN doc,
     data |-> docToObject(doc)]

\* updateMask.fieldPaths=k for every key k of obj.
UpdateMask(obj) == Keys(obj)

GetRequest(id, token) ==
    [method |-> "GET", id |-> id, token |-> token, fieldPaths |-> {},
     body |-> <<>>]

GetOutcomeStrict(id, resp) ==
    IF ~resp.ok THEN Threw("StoreError")
    ELSE IF ~resp.json THEN Threw("SyntaxError")
    ELSE Returned(DocumentSnapshot(resp.body @@ [id |-> id]))

GetOutcome(id, resp) ==
    IF resp.status = 404 THEN Returned(DocumentSnapshot([id |-> id]))
    ELSE IF ~resp.json THEN Threw("SyntaxError")
    ELSE Returned(DocumentSnapshot(resp.body @@ [id |-> id]))

SetRequestMasked(id, obj, options, token) ==
    [method |-> "PATCH", id |-> id, token |-> token,
     fieldPaths |-> UpdateMask(obj), body |-> objectToDoc(obj)]

SetRequest(id, obj, options, token) ==
    [method |-> "PATCH", id |-> id, token |-> token,
     fieldPaths |-> IF MergeOption(options) THEN UpdateMask(obj) ELSE {},
     body |-> objectToDoc(obj)]

SetOutcome(resp) == Returned(Undefined)

UpdateRequest(id, obj, token) ==
    [method |-> "PATCH", id |-> id, token |-> token,
     fieldPaths |-> UpdateMask(obj), body |-> objectToDoc(obj)]

UpdateOutcome(resp) == Returned(Undefined)

\* delete() sending a PATCH without a body in place of the DELETE.
DeleteRequestPatch(id, token) ==
    [method |-> "PATCH", id |-> id, token |-> token, fieldPaths |-> {},
     body |-> objectToDoc(EmptyObject)]

DeleteRequest(id, token) ==
    [method |-> "DELETE", id |-> id, token |-> token, fieldPaths |-> {},
     body |-> <<>>]

DeleteOutcome(resp) == Returned(Undefined)

\* POST to the collection; id is the id the store generates for it.
AddRequest(id, obj, token) ==
    [method |-> "POST", id |-> id, token |-> token, fieldPaths |-> {},
     body |-> objectToDoc(obj)]

\* add() taking the first segment of the resource name (shift for pop).
AddOutcomeShift(resp) ==
    IF ~resp.json THEN Threw("SyntaxError")
    ELSE Returned([id |-> IF "name" \in DOMAIN resp.body
                          THEN Str(resp.body.name[1])
                          ELSE Undefined])

\* result.name?.split('/').pop()
AddOutcome(resp) ==
    IF ~resp.json THEN Threw("SyntaxError")
    ELSE Returned([id |-> IF "name" \in DOMAIN resp.body
                          THEN Str(resp.body.name[Len(resp.body.name)])
                          ELSE Undefined])

RequestOf(op, id, obj, options, token) ==
    CASE op = "get" -> GetRequest(id, token)
      [] op = "set" -> SetRequest(id, obj, options, token)
      [] op = "update" -> UpdateRequest(id, obj, token)
      [] op = "delete" -> DeleteRequest(id, token)
      [] op = "add" -> AddRequest(id, obj, token)

OutcomeOf(op, id, resp) ==
    CASE op = "get" -> GetOutcome(id, resp)
      [] op = "set" -> SetOutcome(resp)
      [] op = "update" -> UpdateOutcome(resp)
      [] op = "delete" -> DeleteOutcome(resp)
      [] op = "add" -> AddOutcome(resp)

\* The requests an operation sends to the store once it holds a token.
RequestsSent == 1

Record(op, id, obj, options, tk, nreq, status, out) ==
    [op |-> op, id |-> id, obj |-> obj, options |-> options,
     pre |-> store[id], tok |-> TokenCall(tk), nreq |-> nreq,
     status |-> status, threw |-> out.threw, result |-> out.result]

\* One whole operation: the token, then the request, then its outcome.
Call(op, id, obj, options, er, rk, upsert) ==
    LET tk == getAccessToken(er)
    IN /\ ApplyToken(tk)
       /\ now' = now
       /\ UNCHANGED <<race, batch, codec, query, firebaseConfig, app>>
       /\ IF tk.threw
          THEN /\ store' = store
               /\ last' = Record(op, id, obj, options, tk, 0, 0,
                                 Threw("TokenError"))
          ELSE LET h == StoreHandle(store,
                                    RequestOf(op, id, obj, options, tk.token),
                                    rk, upsert)
               IN /\ store' = h.store
                  /\ last' = Record(op, id, obj, options, tk, RequestsSent,
                                    h.resp.status,
                                    OutcomeOf(op, id, h.resp))

\* The token endpoint's possible answers to this call (one when the cache
\* is valid and no exchange is made).
Answers(ers) == IF CacheValid THEN {ExchangeFailure} ELSE ers

\* Whether the store's choice between creating and refusing matters.
Upserts(id, fieldPaths) ==
    IF ~store[id].exists /\ fieldPaths # {} THEN BOOLEAN ELSE {FALSE}

Get(ids, ers, rks) ==
    \E id \in ids, er \in Answers(ers), rk \in rks :
        Call("get", id, <<>>, <<>>, er, rk, FALSE)

Set(ids, objs, optionss, ers, rks) ==
    \E id \in ids, obj \in objs, options \in optionss,
       er \in Answers(ers), rk \in rks :
        \E upsert \in Upserts(id, IF MergeOption(options)
                                  THEN Keys(obj) ELSE {}) :
            Call("set", id, obj, options, er, rk, upsert)

Update(ids, objs, ers, rks) ==
    \E id \in ids, obj \in objs, er \in Answers(ers), rk \in rks :
        \E upsert \in Upserts(id, Keys(obj)) :
            Call("update", id, obj, <<>>, er, rk, upsert)

Delete(ids, ers, rks) ==
    \E id \in ids, er \in Answers(ers), rk \in rks :
        Call("delete", id, <<>>, <<>>, er, rk, FALSE)

Add(objs, ers, rks) ==
    \E id \in AutoIds, obj \in objs, er \in Answers(ers), rk \in rks :
        /\ ~store[id].exists
        /\ Call("add", id, obj, <<>>, er, rk, FALSE)

\* Time passes between operations.
Tick ==
    /\ now < (1 + MaxTicks) * TickMs
    /\ now' = now + TickMs
    /\ UNCHANGED <<accessToken, tokenExpiry, store, last, race, batch, codec,
                   query, firebaseConfig, app>>

NoOp ==
    [op |-> "none", id |-> "d1", obj |-> <<>>, options |-> <<>>,
     pre |-> Absent,
     tok |-> [at |-> 0, preToken |-> NoToken, preExpiry |-> 0,
              exchanged |-> FALSE, threw |-> FALSE, token |-> NoToken,
              lifetime |-> 0, error |-> "", upstream |-> ""],
     nreq |-> 0, status |-> 0, threw |-> FALSE, result |-> Undefined]

(***************************************************************************)
(* Interleaved getAccessToken calls: a call reads the clock and the cache  *)
(* (lines 108-112), and on a miss awaits the signing and the exchange; its *)
(* continuation (lines 123-135) runs when the answer arrives.              *)
(***************************************************************************)
Procs == {1, 2}

IdleCall ==
    [pc |-> "idle", start |-> 0, exchanged |-> FALSE, lifetime |-> 0,
     token |-> NoToken]

RaceInit == [calls |-> [p \in Procs |-> IdleCall], lastWrite |-> 0]

\* The cache as written by unless another call has refreshed it meanwhile.
CacheWriteUnlessValid(start, er) ==
    IF CacheValid
    THEN [accessToken |-> accessToken, tokenExpiry |-> tokenExpiry]
    ELSE [accessToken |-> er.access_token,
          tokenExpiry |-> start
                            + (er.expires_in - ExpirySkewSeconds) * MsPerSecond]

\* Lines 131-132, with now as read at the start of the call.
CacheWrite(start, er) ==
    [accessToken |-> er.access_token,
     tokenExpiry |-> start + (er.expires_in - ExpirySkewSeconds) * MsPerSecond]

\* Tokens no call has been given and the cache does not hold.
FreshTokens ==
    Tokens \ ({accessToken} \cup {race.calls[p].token : p \in Procs})

RaceAnswers ==
    ExchangeFailures
        \cup {[ok |-> TRUE, json |-> TRUE, expires_in |-> e,
               access_token |-> t, error_description |-> "", error |-> ""] :
                  e \in ExpiresIns, t \in FreshTokens}

RaceBegin ==
    \E p \in Procs :
        /\ race.calls[p].pc = "idle"
        /\ race' = [race EXCEPT !.calls[p] =
                        IF CacheValid
                        THEN [pc |-> "done", start |-> now,
                              exchanged |-> FALSE, lifetime |-> 0,
                              token |-> accessToken]
                        ELSE [pc |-> "waiting", start |-> now,
                              exchanged |-> TRUE, lifetime |-> 0,
                              token |-> NoToken]]
        /\ UNCHANGED <<accessToken, tokenExpiry, now, store, last, batch,
                       codec, query, firebaseConfig, app>>

RaceFinish ==
    \E p \in Procs, er \in RaceAnswers :
        /\ race.calls[p].pc = "waiting"
        /\ IF ~er.ok
           THEN /\ race' = [race EXCEPT !.calls[p].pc = "failed"]
                /\ UNCHANGED <<accessToken, tokenExpiry>>
           ELSE LET c == CacheWrite(race.calls[p].start, er)
                IN /\ accessToken' = c.accessToken
                   /\ tokenExpiry' = c.tokenExpiry
                   /\ race' = [race EXCEPT
                                  !.calls[p].pc = "done",
                                  !.calls[p].lifetime = er.expires_in,
                                  !.calls[p].token = er.access_token,
                                  !.lastWrite = p]
        /\ UNCHANGED <<now, store, last, batch, codec, query, firebaseConfig,
                       app>>

(***************************************************************************)
(* FirestoreDB.runTransaction and TransactionBatch.  The callback enqueues *)
(* operations; commit then takes them from the array one at a time.  An    *)
(* operation is issued (its token obtained, its request sent) and later    *)
(* completed (the store's answer arrives and the awaited method returns).  *)
(***************************************************************************)
UpdateOp(id, data) == [type |-> "update", id |-> id, data |-> data]
SetOp(id, data, options) ==
    [type |-> "set", id |-> id, data |-> data, options |-> options]

\* The operations a callback may enqueue.
BatchUpdates == {UpdateOp("d1", [k \in {"a"} |-> Num(1)])}
BatchSets == {SetOp("d1", [k \in {"b"} |-> Str("x")], [merge |-> TRUE])}

BatchKinds == {"ok", "error"}

BatchInit ==
    [pc |-> "callback", operations |-> <<>>, issued |-> <<>>,
     inflight |-> {}, statuses |-> <<>>, error |-> "", failedAt |-> 0]

\* The token endpoint's answers during a commit: a failure, or a token that
\* is cached for a minute or expires at once.
BatchAnswers ==
    {er \in ExchangeResponses :
        er = ExchangeFailure \/ (er.ok /\ er.expires_in \in {60, 120})}

\* for (const op of this.operations) without the await.
NextToIssueUnawaited(b) ==
    {i \in 1 .. Len(b.operations) : \A j \in 1 .. Len(b.issued) : b.issued[j] # i}

\* for (const op of this.operations) { await ... }: the operation after the
\* last one issued, once nothing is awaited.
NextToIssue(b) ==
    IF b.inflight # {} \/ Len(b.issued) >= Len(b.operations) THEN {}
    ELSE {Len(b.issued) + 1}

\* The request of an enqueued operation (commit's dispatch on op.type).
OpRequest(op, token) ==
    IF op.type = "update" THEN UpdateRequest(op.id, op.data, token)
    ELSE SetRequest(op.id, op.data, op.options, token)

TxUpdate ==
    \E op \in BatchUpdates :
        /\ batch.pc = "callback"
        /\ Len(batch.operations) < MaxOps
        /\ batch' = [batch EXCEPT !.operations = Append(@, op)]
        /\ UNCHANGED <<accessToken, tokenExpiry, now, store, last, race,
                       codec, query, firebaseConfig, app>>

TxSet ==
    \E op \in BatchSets :
        /\ batch.pc = "callback"
        /\ Len(batch.operations) < MaxOps
        /\ batch' = [batch EXCEPT !.operations = Append(@, op)]
        /\ UNCHANGED <<accessToken, tokenExpiry, now, store, last, race,
                       codec, query, firebaseConfig, app>>

\* await callback(batch) returns: commit starts.
TxCallbackReturns ==
    /\ batch.pc = "callback"
    /\ batch' = [batch EXCEPT !.pc = "committing"]
    /\ UNCHANGED <<accessToken, tokenExpiry, now, store, last, race, codec,
                   query, firebaseConfig, app>>

\* A runTransaction that commits what was enqueued although the callback
\* threw.
TxCallbackThrowsCommits ==
    /\ batch.pc = "callback"
    /\ batch' = [batch EXCEPT !.pc = "committing", !.error = "callback"]
    /\ UNCHANGED <<accessToken, tokenExpiry, now, store, last, race, codec,
                   query, firebaseConfig, app>>

\* await callback(batch) throws: runTransaction rejects before commit.
TxCallbackThrows ==
    /\ batch.pc = "callback"
    /\ batch' = [batch EXCEPT !.pc = "failed", !.error = "callback"]
    /\ UNCHANGED <<accessToken, tokenExpiry, now, store, last, race, codec,
                   query, firebaseConfig, app>>

\* commit issues an operation: getAccessToken, then the request is sent.
TxIssue ==
    \E i \in NextToIssue(batch), er \in Answers(BatchAnswers) :
        LET tk == getAccessToken(er)
        IN /\ batch.pc = "committing"
           /\ ApplyToken(tk)
           /\ batch' = IF tk.threw
                       THEN [batch EXCEPT !.pc = "failed",
                                          !.error = tk.error,
                                          !.failedAt = i]
                       ELSE [batch EXCEPT !.issued = Append(@, i),
                                          !.inflight = @ \cup {i}]
           /\ UNCHANGED <<now, store, last, race, codec, query,
                          firebaseConfig, app>>

\* The store answers an operation's request and the awaited method returns.
TxComplete ==
    \E i \in batch.inflight, rk \in BatchKinds :
        \E upsert \in Upserts(batch.operations[i].id,
                              OpRequest(batch.operations[i], NoToken).fieldPaths) :
            LET h == StoreHandle(store,
                                 OpRequest(batch.operations[i], accessToken),
                                 rk, upsert)
            IN /\ batch.pc = "committing"
               /\ store' = h.store
               /\ batch' = [batch EXCEPT
                               !.inflight = @ \ {i},
                               !.statuses = Append(@, [op |-> i,
                                                       status |-> h.resp.status])]
               /\ UNCHANGED <<accessToken, tokenExpiry, now, last, race,
                              codec, query, firebaseConfig, app>>

\* The loop has no operation left: commit, and runTransaction, return.
TxDone ==
    /\ batch.pc = "committing"
    /\ batch.inflight = {}
    /\ Len(batch.issued) = Len(batch.operations)
    /\ batch' = [batch EXCEPT !.pc = "done"]
    /\ UNCHANGED <<accessToken, tokenExpiry, now, store, last, race, codec,
                   query, firebaseConfig, app>>

(***************************************************************************)
(* CollectionRef.where / limit, QueryRef.where / limit and QueryRef.get.   *)
(* query.arrays is the heap of filter arrays and query.refs the QueryRef   *)
(* objects built so far; a QueryRef holds the index of its filters array,  *)
(* so that two objects sharing one array are told from two with equal      *)
(* arrays.  Receiver 0 is the CollectionRef.                               *)
(***************************************************************************)
Filter(field, op, value) == [field |-> field, op |-> op, value |-> value]

\* The filters and limits given to where and limit.
FilterArgs ==
    {Filter("a", "==", Num(1)), Filter("b", ">=", Str("x")),
     Filter("c", "!=", Bool(TRUE))}
LimitArgs == {Num(0), Num(2)}

QueryInit ==
    [arrays |-> <<>>, refs |-> <<>>, built |-> [op |-> "none"],
     exec |-> [op |-> "none"]]

\* new QueryRef(collection, filters, limitCount), filters an array of the heap
NewQueryRef(collection, filters, limitCount) ==
    [collection |-> collection, filters |-> filters, limitCount |-> limitCount]

FiltersOf(q, r) == q.arrays[q.refs[r].filters]

\* CollectionRef.where: a new array holding the filter, no limit.
CollectionWhere(q, filter) ==
    [q EXCEPT !.arrays = Append(@, <<filter>>),
              !.refs = Append(@, NewQueryRef(CollectionName,
                                             Len(q.arrays) + 1, Null))]

\* CollectionRef.limit: a new empty array.
CollectionLimit(q, n) ==
    [q EXCEPT !.arrays = Append(@, <<>>),
              !.refs = Append(@, NewQueryRef(CollectionName,
                                             Len(q.arrays) + 1, n))]

\* QueryRef.where pushing onto this.filters and passing the same array on.
QueryWhereInPlace(q, r, filter) ==
    [q EXCEPT !.arrays[q.refs[r].filters] = Append(@, filter),
              !.refs = Append(@, NewQueryRef(q.refs[r].collection,
                                             q.refs[r].filters,
                                             q.refs[r].limitCount))]

\* QueryRef.where: [...this.filters, filter] is a new array.
QueryWhere(q, r, filter) ==
    [q EXCEPT !.arrays = Append(@, Append(FiltersOf(q, r), filter)),
              !.refs = Append(@, NewQueryRef(q.refs[r].collection,
                                             Len(q.arrays) + 1,
                                             q.refs[r].limitCount))]

\* QueryRef.limit: the new object shares this.filters.
QueryLimit(q, r, n) ==
    [q EXCEPT !.refs = Append(@, NewQueryRef(q.refs[r].collection,
                                             q.refs[r].filters, n))]

opMap ==
    [op \in {"==", "<", ">", "<=", ">="} |->
        CASE op = "==" -> "EQUAL"
          [] op = "<" -> "LESS_THAN"
          [] op = ">" -> "GREATER_THAN"
          [] op = "<=" -> "LESS_THAN_OR_EQUAL"
          [] op = ">=" -> "GREATER_THAN_OR_EQUAL"]

\* opMap[f.op] || 'EQUAL'
FilterOp(op) == IF op \in DOMAIN opMap THEN opMap[op] ELSE "EQUAL"

FieldFilter(f) ==
    [fieldFilter |-> [field |-> [fieldPath |-> f.field], op |-> FilterOp(f.op),
                      value |-> toFirestoreValue(f.value)]]

CompositeFilter(filters) ==
    [compositeFilter |->
        [op |-> "AND",
         filters |-> [i \in 1 .. Len(filters) |-> FieldFilter(filters[i])]]]

\* The where clause without the replacement for a single filter.
WhereClauseComposite(filters) == CompositeFilter(filters)

\* structuredQuery.where for a non-empty filters array.
WhereClause(filters) ==
    IF Len(filters) = 1 THEN CompositeFilter(filters).compositeFilter.filters[1]
    ELSE CompositeFilter(filters)

\* if (value): false for null, undefined, 0, NaN, "" and false.
Truthy(value) ==
    /\ value.t \notin {"null", "undefined"}
    /\ value.t = "number" => ("x2" \in DOMAIN value /\ value.x2 # 0)
    /\ value.t = "string" => value.v # ""
    /\ value.t = "boolean" => value.v

\* The structuredQuery of get(): where and limit are keys only when set.
StructuredQuery(collection, filters, limitCount) ==
    LET keys == {"from"}
                    \cup (IF Len(filters) > 0 THEN {"where"} ELSE {})
                    \cup (IF Truthy(limitCount) THEN {"limit"} ELSE {})
    IN [k \in keys |->
           CASE k = "from" -> <<[collectionId |-> collection]>>
             [] k = "where" -> WhereClause(filters)
             [] k = "limit" -> limitCount]

\* The envelopes of a runQuery answer.
EnvDocument(id, fields) ==
    [document |-> [name |-> ResourceName(id), fields |-> fields]]
EnvDocumentBare(id) == [document |-> [name |-> ResourceName(id)]]
EnvReadTime == [readTime |-> "2024-01-01T00:00:00Z"]
EnvError == [error |-> 500]

\* An answer to runQuery: its status, whether the body is JSON, whether the
\* JSON is an array, and the array's elements (none when it is not one).
QueryResponse(status, json, array, results) ==
    [status |-> status, json |-> json, array |-> array, results |-> results]

QueryResults ==
    {<<>>, <<EnvReadTime>>,
     <<EnvDocument("d1", objectToDoc([k \in {"a"} |-> Num(1)]).fields)>>,
     <<EnvReadTime, EnvDocument("d1", objectToDoc([k \in {"a"} |-> Num(1)]).fields),
       EnvDocumentBare("n1")>>}

QueryResponses ==
    {QueryResponse(200, TRUE, TRUE, envs) : envs \in QueryResults}
        \cup {QueryResponse(500, TRUE, TRUE, <<EnvError>>),
              QueryResponse(500, TRUE, FALSE, <<>>),
              QueryResponse(500, FALSE, FALSE, <<>>)}

\* { id, name, fields: r.document.fields }
QueryDoc(document) ==
    LET id == document.name[Len(document.name)]
    IN IF "fields" \in DOMAIN document
       THEN [id |-> id, name |-> document.name, fields |-> document.fields]
       ELSE [id |-> id, name |-> document.name]

RECURSIVE WithDocument(_)

\* results.find in place of results.filter: the first document only.
WithDocumentFirst(results) ==
    IF results = <<>> THEN <<>>
    ELSE IF "document" \in DOMAIN Head(results) THEN <<Head(results)>>
         ELSE WithDocument(Tail(results))

WithDocument(results) ==
    IF results = <<>> THEN <<>>
    ELSE IF "document" \in DOMAIN Head(results)
         THEN <<Head(results)>> \o WithDocument(Tail(results))
         ELSE WithDocument(Tail(results))

QuerySnapshot(docs) ==
    [docs |-> docs, size |-> Len(docs), empty |-> Len(docs) = 0]

\* get() after the fetch: response.json(), results.filter(...).map(...).
QueryOutcome(resp) ==
    IF ~resp.json THEN Threw("SyntaxError")
    ELSE IF ~resp.array THEN Threw("TypeError")
    ELSE LET kept == WithDocument(resp.results)
         IN Returned(QuerySnapshot([i \in 1 .. Len(kept) |->
                                       QueryDoc(kept[i].document)]))

Built(q, recv, op, arg) ==
    [q EXCEPT !.built = [recv |-> recv, op |-> op, arg |-> arg,
                         new |-> Len(q.refs)]]

ColWhere ==
    \E f \in FilterArgs :
        /\ query.exec.op = "none"
        /\ Len(query.refs) < MaxRefs
        /\ query' = Built(CollectionWhere(query, f), 0, "where", f)
        /\ UNCHANGED <<accessToken, tokenExpiry, now, store, last, race,
                       batch, codec, firebaseConfig, app>>

ColLimit ==
    \E n \in LimitArgs :
        /\ query.exec.op = "none"
        /\ Len(query.refs) < MaxRefs
        /\ query' = Built(CollectionLimit(query, n), 0, "limit", n)
        /\ UNCHANGED <<accessToken, tokenExpiry, now, store, last, race,
                       batch, codec, firebaseConfig, app>>

RefWhere ==
    \E r \in 1 .. Len(query.refs), f \in FilterArgs :
        /\ query.exec.op = "none"
        /\ Len(query.refs) < MaxRefs
        /\ query' = Built(QueryWhere(query, r, f), r, "where", f)
        /\ UNCHANGED <<accessToken, tokenExpiry, now, store, last, race,
                       batch, codec, firebaseConfig, app>>

RefLimit ==
    \E r \in 1 .. Len(query.refs), n \in LimitArgs :
        /\ query.exec.op = "none"
        /\ Len(query.refs) < MaxRefs
        /\ query' = Built(QueryLimit(query, r, n), r, "limit", n)
        /\ UNCHANGED <<accessToken, tokenExpiry, now, store, last, race,
                       batch, codec, firebaseConfig, app>>

\* QueryRef.get(): the token, the structured query, the request, the result.
RefGet(ers, resps) ==
    \E r \in 1 .. Len(query.refs), er \in Answers(ers), resp \in resps :
        LET tk == getAccessToken(er)
            ref == query.refs[r]
            call == [op |-> "get", ref |-> r, filters |-> FiltersOf(query, r),
                     limitCount |-> ref.limitCount]
        IN /\ query.exec.op = "none"
           /\ ApplyToken(tk)
           /\ query' = [query EXCEPT !.exec =
                  IF tk.threw
                  THEN call @@ [sent |-> FALSE, threw |-> TRUE,
                                result |-> [error |-> "TokenError"]]
                  ELSE call @@ [sent |-> TRUE, resp |-> resp,
                                body |-> [structuredQuery |->
                                             StructuredQuery(ref.collection,
                                                             FiltersOf(query, r),
                                                             ref.limitCount)]]
                            @@ QueryOutcome(resp)]
           /\ UNCHANGED <<now, store, last, race, batch, codec,
                          firebaseConfig, app>>

(***************************************************************************)
(* The codec's functions, each applied once to a value of its domain.      *)
(***************************************************************************)
\* parseFirestoreValue(toFirestoreValue(v))
Encode ==
    \E v \in CodecVals :
        /\ codec.op = "none"
        /\ codec' = [op |-> "toFirestoreValue", v |-> v,
                     wire |-> toFirestoreValue(v),
                     back |-> parseFirestoreValue(toFirestoreValue(v))]
        /\ UNCHANGED <<accessToken, tokenExpiry, now, store, last, race,
                       batch, query, firebaseConfig, app>>

\* docToObject(objectToDoc(m))
EncodeDoc ==
    \E m \in CodecObjs :
        /\ codec.op = "none"
        /\ codec' = [op |-> "objectToDoc", v |-> m, wire |-> objectToDoc(m),
                     back |-> docToObject(objectToDoc(m))]
        /\ UNCHANGED <<accessToken, tokenExpiry, now, store, last, race,
                       batch, query, firebaseConfig, app>>

\* parseFirestoreValue(w)
Decode ==
    \E w \in WireVals :
        /\ codec.op = "none"
        /\ codec' = [op |-> "parseFirestoreValue", wire |-> w,
                     back |-> parseFirestoreValue(w)]
        /\ UNCHANGED <<accessToken, tokenExpiry, now, store, last, race,
                       batch, query, firebaseConfig, app>>

(***************************************************************************)
(* initFirebase.  env holds the deployment's bindings; the private key is  *)
(* a sequence of characters in which "\\n" is a backslash followed by n.   *)
(***************************************************************************)
EnvA ==
    [FIREBASE_PROJECT_ID |-> "p", FIREBASE_CLIENT_EMAIL |-> "sa@p",
     FIREBASE_PRIVATE_KEY |-> <<"-----BEGIN", "\\n", "k", "\\n">>]
EnvB ==
    [FIREBASE_PROJECT_ID |-> "q", FIREBASE_CLIENT_EMAIL |-> "sa@q",
     FIREBASE_PRIVATE_KEY |-> <<"-----BEGIN", "\\n", "j">>]
Envs == {EnvA, EnvB}

\* key.replace(/\\n/g, '\n')
Unescape(key) == [i \in 1 .. Len(key) |-> IF key[i] = "\\n" THEN "\n" ELSE key[i]]

\* The object initFirebase assigns to firebaseConfig.
ConfigOf(env) ==
    [projectId |-> env.FIREBASE_PROJECT_ID,
     clientEmail |-> env.FIREBASE_CLIENT_EMAIL,
     privateKey |-> Unescape(env.FIREBASE_PRIVATE_KEY)]

NoUse == [op |-> "none"]

Slots == {1, 2}
PaymentIds == {"p1", "p2"}
UserIds == {"u1"}
UserEmails == {"u1", "u2"}

\* A request a handler is serving: the handler, the await it is at, the
\* document it was asked about, its local variables, its HTTP status and
\* the data of its response.
Req(kind, pc, id) ==
    [kind |-> kind, pc |-> pc, id |-> id, email |-> "", amount |-> Null,
     creditsToAdd |-> Null, currentCredits |-> Null, status |-> 0,
     data |-> Null, body |-> Null, isNewUser |-> FALSE]

NoReq == Req("none", "done", "")

\* first: the env of the first initFirebase call; use: the credential the
\* last request read; reqs: the requests being served; started: how many
\* were received; credited: per payment, how many times a handler wrote
\* the user's credits for it; deducted: how many deduct requests were
\* answered with success; initial: the user's credits at the start;
\* notified: per email, how many registration notifications were sent;
\* created: per email, how many times createdAt was written;
\* adminChatId: env.TELEGRAM_ADMIN_CHAT_ID.
AppInit ==
    [first |-> Null, use |-> NoUse, reqs |-> [s \in Slots |-> NoReq],
     started |-> 0, credited |-> [p \in PaymentIds |-> 0], deducted |-> 0,
     initial |-> 0, notified |-> [e \in UserEmails |-> 0],
     created |-> [e \in UserEmails |-> 0], adminChatId |-> Undefined]

\* The value of firebaseConfig after initFirebase(env).
InitFirebase(env) == ConfigOf(env)

\* A handler's initFirebase(env) call.
HandlerInit ==
    \E env \in Envs :
        /\ firebaseConfig' = InitFirebase(env)
        /\ app' = [app EXCEPT !.first = IF @ = Null THEN env ELSE @]
        /\ UNCHANGED <<accessToken, tokenExpiry, now, store, last, race,
                       batch, codec, query>>

\* A handler's request to the store: getAccessToken signs with the client
\* email and key of firebaseConfig on a miss, and getFirestoreUrl reads its
\* project id.
HandlerRequest ==
    \E er \in Answers(ExchangeResponses) :
        LET tk == getAccessToken(er)
        IN /\ firebaseConfig # Null
           /\ ApplyToken(tk)
           /\ app' = [app EXCEPT !.use =
                  [op |-> "request", threw |-> tk.threw,
                   signed |-> tk.exchanged,
                   iss |-> IF tk.exchanged THEN firebaseConfig.clientEmail ELSE "",
                   key |-> IF tk.exchanged THEN firebaseConfig.privateKey ELSE <<>>,
                   projectId |-> IF tk.threw THEN "" ELSE firebaseConfig.projectId]]
           /\ UNCHANGED <<now, store, last, race, batch, codec, query,
                          firebaseConfig>>

(***************************************************************************)
(* The API handlers.  A handler runs from one await to the next in one     *)
(* step; every store operation it awaits goes through the client above,    *)
(* with a cached token and a store that processes the request.             *)
(***************************************************************************)
\* What a get() of document id returns when the store, holding st,
\* processes it.
FollowingGet(st, id) ==
    GetOutcome(id, StoreHandle(st, GetRequest(id, NoToken), "ok", FALSE).resp)

\* new Date().toISOString()
NowIso == "2024-01-01T00:00:00.000Z"

\* await ref.get()
Snap(st, id) == FollowingGet(st, id).result

\* snapshot.data().k
Field(snap, k) ==
    IF k \in DOMAIN snap.data.obj THEN snap.data.obj[k] ELSE Undefined

\* await ref.get(), the store answering in the way rk: the snapshot
\* returned or the error thrown.
SnapAnswered(st, id, rk) ==
    GetOutcome(id, StoreHandle(st, GetRequest(id, accessToken), rk, FALSE).resp)

\* The store after an awaited set / update / add of the client, the store
\* answering in the way rk; the client does not read the answer.
WrittenAnswered(st, op, id, obj, options, rk) ==
    StoreHandle(st, RequestOf(op, id, obj, options, accessToken), rk, TRUE).store

\* The store after an awaited set / update / add of the client.
Written(st, op, id, obj, options) ==
    WrittenAnswered(st, op, id, obj, options, "ok")

\* value || 0
OrZero(value) == IF Truthy(value) THEN value ELSE Num(0)

IsNaN(value) == value.t = "number" /\ "x2" \notin DOMAIN value

\* Math.floor(value) of a number
Floor(value) ==
    IF IsNaN(value) THEN NaN ELSE [t |-> "number", x2 |-> 2 * (value.x2 \div 2)]

\* a + b: the sum of two numbers, else the concatenation of the strings
\* (of an object and an integer, here).
Plus(a, b) ==
    IF a.t = "number" /\ b.t = "number"
    THEN (IF IsNaN(a) \/ IsNaN(b) THEN NaN
          ELSE [t |-> "number", x2 |-> a.x2 + b.x2])
    ELSE Str("[object Object]" \o ToString(b.x2 \div 2))

LessThanZero(value) ==
    value.t = "number" /\ ~IsNaN(value) /\ value.x2 < 0

\* value > 0, of a number or of an object or string that converts to NaN.
GreaterZero(value) ==
    value.t = "number" /\ ~IsNaN(value) /\ value.x2 > 0

\* {smsCredits, hasCredits} in the body of a response.
CreditData(smsCredits, hasCredits) ==
    [smsCredits |-> smsCredits, hasCredits |-> hasCredits]

\* value <= 0, of a number or of an object or string that converts to NaN.
LessEqZero(value) ==
    value.t = "number" /\ ~IsNaN(value) /\ value.x2 <= 0

\* value - 1, likewise.
MinusOne(value) ==
    IF value.t = "number" /\ ~IsNaN(value)
    THEN [t |-> "number", x2 |-> value.x2 - 2]
    ELSE NaN

\* parseFloat(value) of a number, or of a string without leading digits.
ParseFloat(value) == IF value.t = "number" THEN value ELSE NaN

\* FieldValue.increment(n)
Increment(n) ==
    Obj([k \in {"__fieldTransform", "value"} |->
            IF k = "value" THEN n ELSE Str("increment")])

StatusIs(snap, status) == Field(snap, "status") = Str(status)

\* A request is finished with an HTTP status (0: no HTTP response is
\* decided by the handler).
Finish(r, status) == [r EXCEPT !.pc = "done", !.status = status]

\* The handler receives a request: initFirebase(env), then the body is read.
Receive(slots, kind, pc, ids) ==
    \E s \in slots, id \in ids :
        /\ app.reqs[s].pc = "done"
        /\ app.started < MaxRequests
        /\ firebaseConfig' = InitFirebase(EnvA)
        /\ app' = [app EXCEPT !.reqs[s] = Req(kind, pc, id), !.started = @ + 1]
        /\ UNCHANGED <<accessToken, tokenExpiry, now, store, last, race,
                       batch, codec, query>>

\* The payment is read; found and not yet in the status refused, the
\* handler keeps the user's email and Math.floor(paymentData.amount).
ReadPaymentFrom(r, snap, refused, notFound, next) ==
    IF ~snap.exists THEN Finish(r, notFound)
    ELSE IF \E status \in refused : StatusIs(snap, status) THEN Finish(r, 400)
    ELSE [r EXCEPT !.pc = next, !.email = Field(snap, "email").v,
                   !.creditsToAdd = Floor(Field(snap, "amount"))]

ReadPayment(r, refused, notFound, next) ==
    ReadPaymentFrom(r, Snap(store, r.id), refused, notFound, next)

ApprovedFields(by) ==
    [status |-> Str("approved"), approvedBy |-> Str(by), approvedAt |-> Str(NowIso)]
RejectedFields(by) ==
    [status |-> Str("rejected"), rejectedBy |-> Str(by), rejectedAt |-> Str(NowIso)]
CreditFields(smsCredits) ==
    [smsCredits |-> smsCredits, lastPaymentDate |-> Str(NowIso),
     subscriptionStatus |-> Str("active")]

\* approvePayment of payments.js, from one await to the next, the store
\* answering each request in one of the ways of kinds; an error thrown by
\* an await is caught and answered 500.
ApprovePaymentAnswered(slots, kinds) ==
    \E s \in slots, rk \in kinds :
        LET r == app.reqs[s]
        IN /\ r.kind = "approve-payment"
           /\ r.pc # "done"
           /\ UNCHANGED <<accessToken, tokenExpiry, now, last, race, batch,
                          codec, query, firebaseConfig>>
           /\ CASE r.pc = "getPayment" ->
                     LET paymentDoc == SnapAnswered(store, r.id, rk)
                     IN /\ app' = [app EXCEPT !.reqs[s] =
                               IF paymentDoc.threw THEN Finish(r, 500)
                               ELSE ReadPaymentFrom(r, paymentDoc.result,
                                                    {"approved"}, 404,
                                                    "updatePayment")]
                        /\ store' = store
                [] r.pc = "updatePayment" ->
                     /\ store' = WrittenAnswered(store, "update", r.id,
                                                 ApprovedFields("admin"), <<>>, rk)
                     /\ app' = [app EXCEPT !.reqs[s].pc = "getUser"]
                [] r.pc = "getUser" ->
                     LET userDoc == SnapAnswered(store, r.email, rk)
                     IN /\ app' = [app EXCEPT !.reqs[s] =
                               IF userDoc.threw THEN Finish(r, 500)
                               ELSE [r EXCEPT
                                       !.pc = "setUser",
                                       !.currentCredits =
                                           IF userDoc.result.exists
                                           THEN OrZero(Field(userDoc.result,
                                                             "smsCredits"))
                                           ELSE Num(0)]]
                        /\ store' = store
                [] r.pc = "setUser" ->
                     /\ store' = WrittenAnswered(store, "set", r.email,
                                         CreditFields(Plus(r.currentCredits,
                                                           r.creditsToAdd)),
                                         [merge |-> TRUE], rk)
                     /\ app' = [app EXCEPT !.reqs[s] = Finish(r, 200),
                                           !.credited[r.id] = @ + 1]

\* approvePayment when the store processes every request.
ApprovePayment(slots) == ApprovePaymentAnswered(slots, {"ok"})

\* rejectPayment of payments.js.
RejectPayment(slots) ==
    \E s \in slots :
        LET r == app.reqs[s]
        IN /\ r.kind = "reject-payment"
           /\ r.pc # "done"
           /\ UNCHANGED <<accessToken, tokenExpiry, now, last, race, batch,
                          codec, query, firebaseConfig>>
           /\ CASE r.pc = "getPayment" ->
                     /\ app' = [app EXCEPT !.reqs[s] =
                                   ReadPayment(r, {"rejected", "approved"}, 404,
                                               "updatePayment")]
                     /\ store' = store
                [] r.pc = "updatePayment" ->
                     /\ store' = Written(store, "update", r.id,
                                         RejectedFields("admin"), <<>>)
                     /\ app' = [app EXCEPT !.reqs[s] = Finish(r, 200)]

\* approvePaymentFromTelegram: the read, then the two operations of the
\* batch, committed one after the other.
ApprovePaymentFromTelegram(slots) ==
    \E s \in slots :
        LET r == app.reqs[s]
        IN /\ r.kind = "telegram-approve"
           /\ r.pc # "done"
           /\ UNCHANGED <<accessToken, tokenExpiry, now, last, race, batch,
                          codec, query, firebaseConfig>>
           /\ CASE r.pc = "getPayment" ->
                     /\ app' = [app EXCEPT !.reqs[s] =
                                   ReadPayment(r, {"approved"}, 0, "commitUpdate")]
                     /\ store' = store
                [] r.pc = "commitUpdate" ->
                     /\ store' = Written(store, "update", r.id,
                                         ApprovedFields("telegram_admin"), <<>>)
                     /\ app' = [app EXCEPT !.reqs[s].pc = "commitSet"]
                [] r.pc = "commitSet" ->
                     /\ store' = Written(store, "set", r.email,
                                         CreditFields(Increment(r.creditsToAdd)),
                                         [merge |-> TRUE])
                     /\ app' = [app EXCEPT !.reqs[s] = Finish(r, 0),
                                           !.credited[r.id] = @ + 1]

\* rejectPaymentFromTelegram.
RejectPaymentFromTelegram(slots) ==
    \E s \in slots :
        LET r == app.reqs[s]
        IN /\ r.kind = "telegram-reject"
           /\ r.pc # "done"
           /\ UNCHANGED <<accessToken, tokenExpiry, now, last, race, batch,
                          codec, query, firebaseConfig>>
           /\ CASE r.pc = "getPayment" ->
                     /\ app' = [app EXCEPT !.reqs[s] =
                                   ReadPayment(r, {"rejected"}, 0, "updatePayment")]
                     /\ store' = store
                [] r.pc = "updatePayment" ->
                     /\ store' = Written(store, "update", r.id,
                                         RejectedFields("telegram_admin"), <<>>)
                     /\ app' = [app EXCEPT !.reqs[s] = Finish(r, 0)]

\* n + 0.5
Fraction(n) == [t |-> "number", x2 |-> 2 * n + 1]

\* The request bodies of submit-payment: an email and an amount, either
\* of which may be missing.
Amounts == {Num(2), Num(-2), Num(0), Fraction(1), Str("x"), Undefined}
Emails == {"u1", ""}

\* submit-payment is received with a body.
SubmitReceived(slots) ==
    \E s \in slots, email \in Emails, amount \in Amounts :
        /\ app.reqs[s].pc = "done"
        /\ app.started < MaxRequests
        /\ \E id \in PaymentIds : ~store[id].exists
        /\ firebaseConfig' = InitFirebase(EnvA)
        /\ app' = [app EXCEPT
               !.reqs[s] = [Req("submit-payment", "add", "") EXCEPT
                               !.email = email, !.amount = amount],
               !.started = @ + 1]
        /\ UNCHANGED <<accessToken, tokenExpiry, now, store, last, race,
                       batch, codec, query>>

\* submitPayment of payments.js: the body is checked and the payment is
\* added under an id the store generates.
SubmitPayment(slots) ==
    \E s \in slots :
        LET r == app.reqs[s]
        IN /\ r.kind = "submit-payment"
           /\ r.pc = "add"
           /\ UNCHANGED <<accessToken, tokenExpiry, now, last, race, batch,
                          codec, query, firebaseConfig>>
           /\ IF r.email = "" \/ ~Truthy(r.amount)
              THEN /\ app' = [app EXCEPT !.reqs[s] = Finish(r, 400)]
                   /\ store' = store
              ELSE \E id \in PaymentIds :
                      /\ ~store[id].exists
                      /\ store' = Written(store, "add", id,
                                          [email |-> Str(r.email),
                                           amount |-> ParseFloat(r.amount),
                                           txid |-> Str("tx"),
                                           currency |-> Str("USDT"),
                                           status |-> Str("pending"),
                                           createdAt |-> Str(NowIso)], <<>>)
                      /\ app' = [app EXCEPT
                             !.reqs[s] = [Finish(r, 200) EXCEPT !.id = id]]

\* deduct-sms-credit: onRequestPost, from one await to the next.
DeductCredit(slots) ==
    \E s \in slots :
        LET r == app.reqs[s]
        IN /\ r.kind = "deduct-sms-credit"
           /\ r.pc # "done"
           /\ UNCHANGED <<accessToken, tokenExpiry, now, last, race, batch,
                          codec, query, firebaseConfig>>
           /\ CASE r.pc = "getUser" ->
                     LET userDoc == Snap(store, r.id)
                         currentCredits == OrZero(Field(userDoc, "smsCredits"))
                     IN /\ app' = [app EXCEPT !.reqs[s] =
                               IF ~userDoc.exists THEN Finish(r, 404)
                               ELSE IF LessEqZero(currentCredits)
                               THEN [Finish(r, 402) EXCEPT
                                       !.data = CreditData(Num(0), FALSE)]
                               ELSE [r EXCEPT !.pc = "updateUser",
                                              !.currentCredits = currentCredits]]
                        /\ store' = store
                [] r.pc = "updateUser" ->
                     /\ store' = Written(store, "update", r.id,
                                         [smsCredits |-> MinusOne(r.currentCredits),
                                          lastUsed |-> Str(NowIso)], <<>>)
                     /\ app' = [app EXCEPT
                            !.reqs[s] =
                                [Finish(r, 200) EXCEPT !.data =
                                    CreditData(MinusOne(r.currentCredits),
                                        GreaterZero(MinusOne(r.currentCredits)))],
                            !.deducted = @ + 1]

(***************************************************************************)
(* register-main-app-user.  Names are sequences of characters; a field     *)
(* of the body that is missing and one that is '' are both <<>>, which is  *)
(* how the handler reads them (firstName || '', name && ...).              *)
(***************************************************************************)
LowerChar(c) ==
    CASE c = "A" -> "a" [] c = "B" -> "b" [] OTHER -> c

\* s.toLowerCase()
ToLowerCase(s) == [i \in 1 .. Len(s) |-> LowerChar(s[i])]

RECURSIVE TrimStart(_)
TrimStart(s) ==
    IF s # <<>> /\ Head(s) = " " THEN TrimStart(Tail(s)) ELSE s

RECURSIVE TrimEnd(_)
TrimEnd(s) ==
    IF s # <<>> /\ s[Len(s)] = " " THEN TrimEnd(SubSeq(s, 1, Len(s) - 1))
    ELSE s

\* s.trim()
Trim(s) == TrimEnd(TrimStart(s))

\* s.split(' ')[0] || ''
RECURSIVE FirstPart(_)
FirstPart(s) ==
    IF s = <<>> \/ Head(s) = " " THEN <<>>
    ELSE <<Head(s)>> \o FirstPart(Tail(s))

\* s.split(' ').slice(1).join(' ') || '': what follows the first space.
RECURSIVE RestParts(_)
RestParts(s) ==
    IF s = <<>> THEN <<>>
    ELSE IF Head(s) = " " THEN Tail(s)
    ELSE RestParts(Tail(s))

\* [first, last].filter(Boolean).join(' ')
JoinName(firstName, lastName) ==
    IF firstName = <<>> THEN lastName
    ELSE IF lastName = <<>> THEN firstName
    ELSE firstName \o <<" ">> \o lastName

\* finalFirstName and finalLastName of a body.
FinalFirstName(body) ==
    IF body.name # <<>> /\ body.firstName = <<>>
    THEN FirstPart(Trim(body.name)) ELSE body.firstName
FinalLastName(body) ==
    IF body.name # <<>> /\ body.firstName = <<>>
    THEN RestParts(Trim(body.name)) ELSE body.lastName

\* userData.k || '' of a stored user.
NameField(snap, k) ==
    LET value == Field(snap, k)
    IN IF value.t = "string" /\ value.v # <<>> THEN value.v ELSE <<>>

\* [userData.firstName || '', userData.lastName || ''].filter(Boolean)
\* .join(' ') of a stored user.
ExistingFullName(snap) ==
    JoinName(NameField(snap, "firstName"), NameField(snap, "lastName"))

\* await db.collection('users').get(): the snapshots of the documents the
\* store lists (forEach visits each; the handler keeps whether one matched).
ListSnapshots(st) == {Snap(st, id) : id \in {i \in DOMAIN st : st[i].exists}}

\* The ids forEach leaves in duplicateNameUser, if any.
DuplicateNameUsers(st, email, fullName) ==
    {snap.id : snap \in
        {d \in ListSnapshots(st) :
            /\ d.id # email
            /\ ToLowerCase(ExistingFullName(d)) = ToLowerCase(fullName)}}

\* userData: email and updatedAt, the names and phone that are not
\* empty, and createdAt for a new user.
RegisterData(email, body, isNewUser) ==
    LET values == [email |-> Str(email), updatedAt |-> Str(NowIso),
                   firstName |-> Str(FinalFirstName(body)),
                   lastName |-> Str(FinalLastName(body)),
                   phone |-> Str(body.phone), createdAt |-> Str(NowIso)]
        keys == {"email", "updatedAt"}
                    \cup (IF FinalFirstName(body) # <<>> THEN {"firstName"} ELSE {})
                    \cup (IF FinalLastName(body) # <<>> THEN {"lastName"} ELSE {})
                    \cup (IF body.phone # <<>> THEN {"phone"} ELSE {})
                    \cup (IF isNewUser THEN {"createdAt"} ELSE {})
    IN [k \in keys |-> values[k]]

\* The bodies of register-main-app-user.
Al == <<"A", "l">>
Bo == <<"B", "o">>
FirstNames == {<<>>, Al, ToLowerCase(Al)}
LastNames == {<<>>, Bo}
FullNames == {<<>>, <<" ">> \o Al \o <<" ">> \o Bo}
Phones == {<<>>}
RegisterBodies ==
    [firstName : FirstNames, lastName : LastNames, name : FullNames,
     phone : Phones]

\* register-main-app-user is received with a body for an email.
RegisterReceived(slots, emails, bodies) ==
    \E s \in slots, email \in emails, body \in bodies :
        /\ app.reqs[s].pc = "done"
        /\ app.started < MaxRequests
        /\ firebaseConfig' = InitFirebase(EnvA)
        /\ app' = [app EXCEPT
               !.reqs[s] = [Req("register-main-app-user", "getExisting", email)
                               EXCEPT !.body = body],
               !.started = @ + 1]
        /\ UNCHANGED <<accessToken, tokenExpiry, now, store, last, race,
                       batch, codec, query>>

\* registerMainAppUser, from one await to the next.
RegisterMainAppUser(slots) ==
    \E s \in slots :
        LET r == app.reqs[s]
            email == r.id
            fullName == JoinName(FinalFirstName(r.body), FinalLastName(r.body))
        IN /\ r.kind = "register-main-app-user"
           /\ r.pc # "done"
           /\ UNCHANGED <<accessToken, tokenExpiry, now, last, race, batch,
                          codec, query, firebaseConfig>>
           /\ CASE r.pc = "getExisting" ->
                     /\ app' = [app EXCEPT !.reqs[s] =
                               [r EXCEPT
                                  !.isNewUser = ~Snap(store, email).exists,
                                  !.pc = IF fullName # <<>> /\ Trim(fullName) # <<>>
                                         THEN "listUsers" ELSE "setUser"]]
                     /\ store' = store
                [] r.pc = "listUsers" ->
                     /\ app' = [app EXCEPT !.reqs[s] =
                               IF DuplicateNameUsers(store, email, fullName) # {}
                               THEN Finish(r, 409)
                               ELSE [r EXCEPT !.pc = "setUser"]]
                     /\ store' = store
                [] r.pc = "setUser" ->
                     /\ store' = Written(store, "set", email,
                                         RegisterData(email, r.body, r.isNewUser),
                                         [merge |-> TRUE])
                     /\ app' = [app EXCEPT
                               !.reqs[s] = IF r.isNewUser
                                           THEN [r EXCEPT !.pc = "notify"]
                                           ELSE Finish(r, 200),
                               !.created[email] =
                                   IF r.isNewUser THEN @ + 1 ELSE @]
                [] r.pc = "notify" ->
                     /\ app' = [app EXCEPT !.reqs[s] = Finish(r, 200),
                                           !.notified[email] = @ + 1]
                     /\ store' = store

(***************************************************************************)
(* The Telegram webhook: an update is a callback query or a command, from  *)
(* a chat, asking for an action on a document.                             *)
(***************************************************************************)
\* An update that is let through whatever its chat.
AnyChatAuthorized(via, chatId, adminChatId) == TRUE

\* handleCallbackQuery: chatId.toString() !== adminChatId refuses;
\* handleCommand: !adminChatId || chatId.toString() !== adminChatId refuses.
Authorized(via, chatId, adminChatId) ==
    IF via = "callback" THEN Str(DecStr(chatId)) = adminChatId
    ELSE adminChatId # Undefined /\ adminChatId.v # <<>>
            /\ Str(DecStr(chatId)) = adminChatId

ChatIds == {1, 2}
TelegramActions ==
    {"approve", "reject", "delete_payment", "delete_user", "list"}
Updates ==
    {u \in [via : {"callback", "command"}, chatId : ChatIds,
            action : TelegramActions, target : {"p1", "u1"}] :
        u.target = (IF u.action = "delete_user" THEN "u1" ELSE "p1")}

\* The webhook receives an update.
TelegramReceived(slots) ==
    \E s \in slots, update \in Updates :
        /\ app.reqs[s].pc = "done"
        /\ app.started < MaxRequests
        /\ firebaseConfig' = InitFirebase(EnvA)
        /\ app' = [app EXCEPT
               !.reqs[s] = [Req("telegram-update", "dispatch", update.target)
                               EXCEPT !.body = update],
               !.started = @ + 1]
        /\ UNCHANGED <<accessToken, tokenExpiry, now, store, last, race,
                       batch, codec, query>>

\* handleCallbackQuery / handleCommand: an update from another chat is
\* answered "Unauthorized"; one from the admin chat is dispatched on
\* its data or command.
TelegramDispatch(slots) ==
    \E s \in slots :
        LET r == app.reqs[s]
            update == r.body
        IN /\ r.kind = "telegram-update"
           /\ r.pc = "dispatch"
           /\ app' = [app EXCEPT !.reqs[s] =
                  IF ~Authorized(update.via, update.chatId, app.adminChatId)
                  THEN Finish(r, 200)
                  ELSE CASE update.action = "approve" ->
                              [r EXCEPT !.kind = "telegram-approve",
                                        !.pc = "getPayment"]
                         [] update.action = "reject" ->
                              [r EXCEPT !.kind = "telegram-reject",
                                        !.pc = "getPayment"]
                         [] update.action \in {"delete_payment", "delete_user"} ->
                              [r EXCEPT !.kind = "telegram-delete",
                                        !.pc = "getDocument"]
                         [] OTHER -> Finish(r, 200)]
           /\ UNCHANGED <<accessToken, tokenExpiry, now, store, last, race,
                          batch, codec, query, firebaseConfig>>

\* deletePaymentFromTelegram / deleteUserFromTelegram.
DeleteFromTelegram(slots) ==
    \E s \in slots :
        LET r == app.reqs[s]
        IN /\ r.kind = "telegram-delete"
           /\ r.pc # "done"
           /\ UNCHANGED <<accessToken, tokenExpiry, now, last, race, batch,
                          codec, query, firebaseConfig>>
           /\ CASE r.pc = "getDocument" ->
                     /\ app' = [app EXCEPT !.reqs[s] =
                               IF ~Snap(store, r.id).exists THEN Finish(r, 200)
                               ELSE [r EXCEPT !.pc = "delete"]]
                     /\ store' = store
                [] r.pc = "delete" ->
                     /\ store' = Written(store, "delete", r.id, <<>>, <<>>)
                     /\ app' = [app EXCEPT !.reqs[s] = Finish(r, 200)]

\* The methods of TransactionBatch.
TransactionBatchMethods == {"update", "set", "commit"}

\* deduct-sms-credit with db.runTransaction: the callback starts with
\* t.get(userRef); calling a method the batch does not have throws a
\* TypeError out of the callback and out of runTransaction before
\* anything is enqueued, and the handler's catch answers 500.
DeductTransaction(slots) ==
    \E s \in slots :
        LET r == app.reqs[s]
        IN /\ r.kind = "deduct-transaction"
           /\ r.pc = "callback"
           /\ "get" \notin TransactionBatchMethods
           /\ app' = [app EXCEPT !.reqs[s] = Finish(r, 500)]
           /\ UNCHANGED <<accessToken, tokenExpiry, now, store, last, race,
                          batch, codec, query, firebaseConfig>>

Init ==
    /\ accessToken = NoToken
    /\ tokenExpiry = 0
    /\ now = TickMs
    /\ store = [id \in AllIds |-> Absent]
    /\ last = NoOp
    /\ race = RaceInit
    /\ batch = BatchInit
    /\ codec = CodecInit
    /\ query = QueryInit
    /\ firebaseConfig = ConfigOf(EnvA)
    /\ app = AppInit

(***************************************************************************)
(* Spec: the document operations over every input, within one clock tick,  *)
(* with a token endpoint that fails or issues one token.                   *)
(***************************************************************************)
OneLifetime == {er \in ExchangeResponses :
                   \/ er = ExchangeFailure
                   \/ (er.ok /\ er.expires_in = 120 /\ er.access_token = 1)}

DocGet == Get(AllIds, OneLifetime, RespKinds)
DocSet == Set(DocIds, Objs, OptionsSet, OneLifetime, UnreadKinds)
DocUpdate == Update(DocIds, Objs, OneLifetime, UnreadKinds)
DocDelete == Delete(AllIds, OneLifetime, UnreadKinds)
ColAdd == Add(Objs, OneLifetime, RespKinds)

Next == DocGet \/ DocSet \/ DocUpdate \/ DocDelete \/ ColAdd

Spec == Init /\ [][Next]_vars

(***************************************************************************)
(* SpecToken: the token cache over time, under operations on one document  *)
(* with one field set.                                                     *)
(***************************************************************************)
TokenObjs == {[k \in {"a"} |-> Num(1)]}
TokenKinds == {"ok", "unauth"}

TokenGet == Get(DocIds, ExchangeResponses, TokenKinds)
TokenSet == Set(DocIds, TokenObjs, {<<>>}, ExchangeResponses, TokenKinds)
TokenDelete == Delete(DocIds, ExchangeResponses, TokenKinds)

NextToken == TokenGet \/ TokenSet \/ TokenDelete \/ Tick

SpecToken == Init /\ [][NextToken]_vars

(***************************************************************************)
(* SpecRace: two getAccessToken calls, interleaved, over time.             *)
(***************************************************************************)
NextRace == RaceBegin \/ RaceFinish \/ Tick

SpecRace == Init /\ [][NextRace]_vars

(***************************************************************************)
(* SpecBatch: one runTransaction call.                                     *)
(***************************************************************************)
NextBatch ==
    \/ TxUpdate \/ TxSet \/ TxCallbackReturns \/ TxCallbackThrows
    \/ TxIssue \/ TxComplete \/ TxDone

SpecBatch == Init /\ [][NextBatch]_vars

(***************************************************************************)
(* SpecCodec: the codec applied to values.                                 *)
(***************************************************************************)
NextCodec == Encode \/ EncodeDoc \/ Decode

SpecCodec == Init /\ [][NextCodec]_vars

(***************************************************************************)
(* SpecQuery: queries built from the collection, and one of them executed. *)
(***************************************************************************)
QueryAnswers ==
    {QueryResponse(200, TRUE, TRUE, envs) :
        envs \in {<<>>, <<EnvReadTime, EnvDocument("d1", <<>>)>>}}
        \cup {QueryResponse(500, TRUE, FALSE, <<>>)}

QueryGet == RefGet(OneLifetime, QueryAnswers)

NextQuery == ColWhere \/ ColLimit \/ RefWhere \/ RefLimit \/ QueryGet

SpecQuery == Init /\ [][NextQuery]_vars

(***************************************************************************)
(* SpecResults: queries built from the collection and executed against     *)
(* every answer of the store.                                              *)
(***************************************************************************)
ResultsGet == RefGet(OneLifetime, QueryResponses)

NextResults == ColWhere \/ ColLimit \/ ResultsGet

SpecResults == Init /\ [][NextResults]_vars

(***************************************************************************)
(* SpecConfig: handlers initialising the client and sending requests, from *)
(* the state in which the module was loaded.                               *)
(***************************************************************************)
InitLoaded ==
    /\ accessToken = NoToken
    /\ tokenExpiry = 0
    /\ now = TickMs
    /\ store = [id \in AllIds |-> Absent]
    /\ last = NoOp
    /\ race = RaceInit
    /\ batch = BatchInit
    /\ codec = CodecInit
    /\ query = QueryInit
    /\ firebaseConfig = Null
    /\ app = AppInit

ConfigTick ==
    /\ now < (1 + MaxTicks) * TickMs
    /\ now' = now + TickMs
    /\ UNCHANGED <<accessToken, tokenExpiry, store, last, race, batch, codec,
                   query, firebaseConfig, app>>

NextConfig == HandlerInit \/ HandlerRequest \/ ConfigTick

SpecConfig == InitLoaded /\ [][NextConfig]_vars

(***************************************************************************)
(* SpecPayments: approve and reject requests on one pending payment, from  *)
(* the HTTP API and from Telegram, served one after the other.             *)
(***************************************************************************)
\* A payment document as submitPayment stores it.
PaymentDoc(email, amount, status) ==
    Stored(objectToDoc([email |-> Str(email), amount |-> amount,
                        txid |-> Str("tx"), currency |-> Str("USDT"),
                        status |-> Str(status),
                        createdAt |-> Str(NowIso)]).fields)

UserDoc(smsCredits) == Stored(objectToDoc([smsCredits |-> smsCredits]).fields)

\* The state of a running deployment: the client initialised, a token
\* cached, and the given documents stored.
DeployedWith(docs, counters) ==
    /\ accessToken = 1
    /\ tokenExpiry = 2 * TickMs
    /\ now = TickMs
    /\ store = docs
    /\ last = NoOp
    /\ race = RaceInit
    /\ batch = BatchInit
    /\ codec = CodecInit
    /\ query = QueryInit
    /\ firebaseConfig = ConfigOf(EnvA)
    /\ app = counters

Deployed(docs, credits) ==
    DeployedWith(docs, [AppInit EXCEPT !.initial = credits])

InitPayments ==
    \E amount \in {Num(2), Fraction(2)}, credits \in {0, 1} :
        Deployed([id \in {"p1", "u1"} |->
                     IF id = "p1" THEN PaymentDoc("u1", amount, "pending")
                     ELSE UserDoc(Num(credits))],
                 credits)

PayApproveReceived == Receive({1}, "approve-payment", "getPayment", {"p1"})
PayRejectReceived == Receive({1}, "reject-payment", "getPayment", {"p1"})
PayTelegramApproveReceived ==
    Receive({1}, "telegram-approve", "getPayment", {"p1"})
PayTelegramRejectReceived ==
    Receive({1}, "telegram-reject", "getPayment", {"p1"})
PayApprove == ApprovePayment({1})
PayReject == RejectPayment({1})
PayTelegramApprove == ApprovePaymentFromTelegram({1})
PayTelegramReject == RejectPaymentFromTelegram({1})

NextPayments ==
    \/ PayApproveReceived \/ PayRejectReceived
    \/ PayTelegramApproveReceived \/ PayTelegramRejectReceived
    \/ PayApprove \/ PayReject \/ PayTelegramApprove \/ PayTelegramReject

SpecPayments == InitPayments /\ [][NextPayments]_vars

(***************************************************************************)
(* SpecDeduct: deduct requests for one user, served concurrently.          *)
(***************************************************************************)
InitDeduct ==
    \E credits \in 0 .. 2 :
        Deployed([id \in {"u1"} |-> UserDoc(Num(credits))], credits)

DeductReceived == Receive(Slots, "deduct-sms-credit", "getUser", UserIds)
Deduct == DeductCredit(Slots)

NextDeduct == DeductReceived \/ Deduct

SpecDeduct == InitDeduct /\ [][NextDeduct]_vars

(***************************************************************************)
(* SpecCredits: submit-payment, approve-payment and deduct requests,       *)
(* served one after the other.                                             *)
(***************************************************************************)
InitCredits ==
    \E credits \in 0 .. 1 :
        Deployed([id \in PaymentIds \cup UserIds |->
                     IF id \in UserIds THEN UserDoc(Num(credits)) ELSE Absent],
                 credits)

CreditsSubmitReceived == SubmitReceived({1})
CreditsApproveReceived ==
    Receive({1}, "approve-payment", "getPayment", PaymentIds)
CreditsDeductReceived ==
    Receive({1}, "deduct-sms-credit", "getUser", UserIds)
CreditsSubmit == SubmitPayment({1})
CreditsApprove == ApprovePayment({1})
CreditsDeduct == DeductCredit({1})

NextCredits ==
    \/ CreditsSubmitReceived \/ CreditsApproveReceived
    \/ CreditsDeductReceived
    \/ CreditsSubmit \/ CreditsApprove \/ CreditsDeduct

SpecCredits == InitCredits /\ [][NextCredits]_vars

(***************************************************************************)
(* SpecApprove: approve-payment requests for two pending payments of one   *)
(* user, served concurrently.                                              *)
(***************************************************************************)
PendingAmounts == {Num(1), Num(2), Fraction(2)}

InitApprove ==
    \E a1 \in PendingAmounts, a2 \in PendingAmounts, credits \in 0 .. 1 :
        Deployed([id \in PaymentIds \cup UserIds |->
                     IF id \in UserIds THEN UserDoc(Num(credits))
                     ELSE PaymentDoc("u1", IF id = "p1" THEN a1 ELSE a2,
                                     "pending")],
                 credits)

ApproveReceived == Receive(Slots, "approve-payment", "getPayment", PaymentIds)
Approve == ApprovePayment(Slots)

NextApprove == ApproveReceived \/ Approve

SpecApprove == InitApprove /\ [][NextApprove]_vars

(***************************************************************************)
(* SpecFailure: approve-payment requests for one pending payment, served   *)
(* one after the other by a store that may refuse or garble any answer.    *)
(***************************************************************************)
InitFailure ==
    \E amount \in {Num(2), Fraction(2)}, credits \in 0 .. 1 :
        Deployed([id \in {"p1", "u1"} |->
                     IF id = "p1" THEN PaymentDoc("u1", amount, "pending")
                     ELSE UserDoc(Num(credits))],
                 credits)

FailureApproveReceived ==
    Receive({1}, "approve-payment", "getPayment", {"p1"})
FailureApprove == ApprovePaymentAnswered({1}, RespKinds)

NextFailure == FailureApproveReceived \/ FailureApprove

SpecFailure == InitFailure /\ [][NextFailure]_vars

(***************************************************************************)
(* SpecTransaction: deduct requests of the handler that uses               *)
(* db.runTransaction, for a stored user and for a missing one.             *)
(***************************************************************************)
DeductUsers == {"u1", "u2"}

InitTransaction ==
    \E credits \in 0 .. 2 :
        Deployed([id \in DeductUsers |->
                     IF id = "u1" THEN UserDoc(Num(credits)) ELSE Absent],
                 credits)

TransactionReceived ==
    Receive(Slots, "deduct-transaction", "callback", DeductUsers)
TransactionDeduct == DeductTransaction(Slots)

NextTransaction == TransactionReceived \/ TransactionDeduct

SpecTransaction == InitTransaction /\ [][NextTransaction]_vars

(***************************************************************************)
(* SpecDeductOne: deduct requests of the handler without a transaction,    *)
(* served one after the other, for a stored user and for a missing one.    *)
(***************************************************************************)
\* The user documents: a subscription, with or without credits.
UserDocs ==
    {Stored(objectToDoc(o).fields) :
        o \in {[subscriptionStatus |-> Str("active")]}
               \cup {[subscriptionStatus |-> Str("active"), smsCredits |-> c] :
                        c \in {Num(-1), Num(0), Num(1), Num(2), Fraction(0),
                               Fraction(1)}}}

InitDeductOne ==
    \E d \in UserDocs :
        Deployed([id \in DeductUsers |-> IF id = "u1" THEN d ELSE Absent], 0)

DeductOneReceived ==
    Receive({1}, "deduct-sms-credit", "getUser", DeductUsers)
DeductOne == DeductCredit({1})

NextDeductOne == DeductOneReceived \/ DeductOne

SpecDeductOne == InitDeductOne /\ [][NextDeductOne]_vars

(***************************************************************************)
(* SpecRegister: register-main-app-user requests for two emails, served    *)
(* one after the other, starting without users.                            *)
(***************************************************************************)
InitRegister == Deployed([id \in UserEmails |-> Absent], 0)

RegisterOneReceived == RegisterReceived({1}, UserEmails, RegisterBodies)
RegisterOne == RegisterMainAppUser({1})

NextRegister == RegisterOneReceived \/ RegisterOne

SpecRegister == InitRegister /\ [][NextRegister]_vars

(***************************************************************************)
(* SpecRegisterRace: register-main-app-user requests served concurrently.  *)
(***************************************************************************)
RaceBodies == {b \in RegisterBodies : b.name = <<>> /\ b.firstName # <<>>}

RegisterRaceReceived == RegisterReceived(Slots, UserEmails, RaceBodies)
RegisterRace == RegisterMainAppUser(Slots)

NextRegisterRace == RegisterRaceReceived \/ RegisterRace

SpecRegisterRace == InitRegister /\ [][NextRegisterRace]_vars

(***************************************************************************)
(* SpecTelegram: updates sent to the Telegram webhook from the admin chat  *)
(* and from another chat, with TELEGRAM_ADMIN_CHAT_ID set or unset.        *)
(***************************************************************************)
AdminChatIds == {Undefined, Str(DecStr(1))}

InitTelegram ==
    \E chat \in AdminChatIds :
        DeployedWith([id \in {"p1", "u1"} |->
                         IF id = "p1" THEN PaymentDoc("u1", Num(2), "pending")
                         ELSE UserDoc(Num(0))],
                     [AppInit EXCEPT !.adminChatId = chat])

TelegramUpdateReceived == TelegramReceived({1})
TelegramUpdateDispatch == TelegramDispatch({1})
TelegramApprove == ApprovePaymentFromTelegram({1})
TelegramReject == RejectPaymentFromTelegram({1})
TelegramDelete == DeleteFromTelegram({1})

NextTelegram ==
    \/ TelegramUpdateReceived \/ TelegramUpdateDispatch
    \/ TelegramApprove \/ TelegramReject \/ TelegramDelete

SpecTelegram == InitTelegram /\ [][NextTelegram]_vars

(***************************************************************************)
(* Properties.                                                             *)
(***************************************************************************)
\* old overlaid with new: every field of new, and the other fields of old.
Overlay(old, new) ==
    [k \in DOMAIN old \cup DOMAIN new |->
        IF k \in DOMAIN new THEN new[k] ELSE old[k]]

Is2xx(status) == status >= 200 /\ status <= 299

\* C1: set(fields, {merge: true}) on an existing document, answered with
\* success, leaves every stored field that was not supplied unchanged and
\* sets every supplied field, for every supplied field set (the empty one
\* included).
C1_MergeSetPreserves ==
    (/\ last.op = "set"
     /\ MergeOption(last.options)
     /\ last.pre.exists
     /\ last.status = 200)
        => store[last.id]
               = Stored(Overlay(last.pre.fields, objectToDoc(last.obj).fields))

\* C2: update(fields) on an existing document, answered with success,
\* changes exactly the supplied fields, for every supplied field set (the
\* empty one included).
C2_UpdateChangesExactly ==
    (/\ last.op = "update"
     /\ last.pre.exists
     /\ last.status = 200)
        => store[last.id]
               = Stored(Overlay(last.pre.fields, objectToDoc(last.obj).fields))

\* C3: set(fields) with merge false or omitted, answered with success,
\* replaces the whole document: the stored document holds exactly the
\* supplied fields, each decoding to its supplied value.
C3_SetReplaces ==
    (/\ last.op = "set"
     /\ ~MergeOption(last.options)
     /\ last.status = 200)
        => /\ store[last.id].exists
           /\ DOMAIN store[last.id].fields = Keys(last.obj)
           /\ \A k \in Keys(last.obj) :
                  parseFirestoreValue(store[last.id].fields[k]) = last.obj[k]

\* A set without merge replaced a document that held a field not supplied.
C3_Witness ==
    /\ last.op = "set"
    /\ ~MergeOption(last.options)
    /\ last.status = 200
    /\ last.pre.exists
    /\ Keys(last.obj) # {}
    /\ \E k \in DOMAIN last.pre.fields : k \notin Keys(last.obj)

\* C4: update(fields) on a document that does not exist fails with an error
\* surfaced to the caller and does not create the document.
C4_UpdateMissingFails ==
    (/\ last.op = "update"
     /\ ~last.pre.exists
     /\ last.status \in {200, 404})
        => /\ last.threw
           /\ ~store[last.id].exists

C6_GetErrorFails ==
    (/\ last.op = "get"
     /\ last.nreq > 0
     /\ ~Is2xx(last.status)
     /\ last.status # 404)
        => last.threw

\* C7: set, update, delete and add do not return normally after a non-2xx
\* store response.
C7_WriteErrorSurfaced ==
    (/\ last.op \in {"set", "update", "delete", "add"}
     /\ last.nreq > 0
     /\ ~Is2xx(last.status))
        => last.threw

\* C8: an operation whose request is answered 401 replaces the cached token
\* and sends the request a second time.
C8_RetryOn401 ==
    (last.op # "none" /\ last.nreq > 0 /\ last.status = 401)
        => /\ last.nreq = 2
           /\ accessToken # last.tok.token

\* Whether the cache held an unexpired token when the last call was made.
HadValidToken ==
    last.tok.preToken # NoToken /\ last.tok.at < last.tok.preExpiry

\* C9: a token cached by a successful exchange expires at exchange start +
\* lifetime - 60 s, and a getAccessToken call made before the cached expiry
\* returns the cached token, issues no request to the token endpoint and
\* leaves the cache as it was.
C9_CachedTokenReused ==
    last.op # "none" =>
        /\ (last.tok.exchanged /\ ~last.tok.threw)
               => /\ accessToken = last.tok.token
                  /\ tokenExpiry = last.tok.at + (last.tok.lifetime - 60) * 1000
        /\ HadValidToken
               => /\ ~last.tok.exchanged
                  /\ ~last.tok.threw
                  /\ last.tok.token = last.tok.preToken
                  /\ accessToken = last.tok.preToken
                  /\ tokenExpiry = last.tok.preExpiry

\* A call made later than the exchange, before the expiry, used the cache.
C9_Witness ==
    /\ last.op # "none"
    /\ HadValidToken
    /\ last.tok.at > TickMs
    /\ last.tok.token = last.tok.preToken

C11_ExchangeFailureKeepsCache ==
    (last.op # "none" /\ last.tok.exchanged /\ last.tok.lifetime = 0)
        => /\ last.tok.threw
           /\ last.threw
           /\ last.nreq = 0
           /\ accessToken = last.tok.preToken
           /\ tokenExpiry = last.tok.preExpiry
           /\ last.tok.upstream # ""
                  => last.tok.error
                         = "Failed to get access token: " \o last.tok.upstream

\* An exchange failed, with a description, while an expired token was cached.
C11_Witness ==
    /\ last.op # "none"
    /\ last.tok.threw
    /\ last.tok.upstream # ""
    /\ last.tok.preToken # NoToken
    /\ accessToken = last.tok.preToken

\* C12: when getAccessToken calls interleave during a cache miss, each one
\* that missed performs its own exchange and, answered with success,
\* completes with the token of that exchange; the cache then holds the
\* token together with the expiry of one and the same exchange, the one
\* whose answer was processed last.
C12_LastWriteWins ==
    /\ \A p \in Procs :
           (race.calls[p].pc = "done" /\ race.calls[p].exchanged)
               => /\ race.calls[p].token # NoToken
                  /\ \A q \in Procs \ {p} :
                         race.calls[q].exchanged
                             => race.calls[q].token # race.calls[p].token
    /\ race.lastWrite # 0
           => LET c == race.calls[race.lastWrite]
              IN /\ accessToken = c.token
                 /\ tokenExpiry = c.start + (c.lifetime - 60) * 1000

\* Both calls missed and exchanged; the call that started first was answered
\* last, so the cache holds its token and its (earlier) expiry.
C12_Witness ==
    /\ \A p \in Procs : race.calls[p].pc = "done" /\ race.calls[p].exchanged
    /\ \E p \in Procs, q \in Procs :
           /\ race.lastWrite = p
           /\ race.calls[p].start < race.calls[q].start
           /\ accessToken = race.calls[p].token
           /\ tokenExpiry < race.calls[q].start
                               + (race.calls[q].lifetime - 60) * 1000

\* The operations whose answer has arrived.
Completed == {batch.statuses[j].op : j \in 1 .. Len(batch.statuses)}

\* C13: commit applies the enqueued operations one at a time in the order
\* they were enqueued: the k-th operation issued is the k-th enqueued, at
\* most one is awaited, and an operation is issued only after every earlier
\* one has completed; after commit every operation has been issued.
C13_CommitInOrder ==
    /\ \A j \in 1 .. Len(batch.issued) : batch.issued[j] = j
    /\ \A j \in 1 .. Len(batch.statuses) : batch.statuses[j].op = j
    /\ Cardinality(batch.inflight) <= 1
    /\ \A i \in batch.inflight : \A j \in 1 .. (i - 1) : j \in Completed
    /\ batch.pc = "done"
           => /\ Len(batch.issued) = Len(batch.operations)
              /\ Completed = 1 .. Len(batch.operations)

\* A commit of three operations is under way: the second is awaited, the
\* first has completed and the third has not been issued.
C13_Witness ==
    /\ batch.pc = "committing"
    /\ Len(batch.operations) = 3
    /\ batch.inflight = {2}
    /\ Completed = {1}
    /\ batch.issued = <<1, 2>>

\* C14: if operation k fails during commit (its request is refused by the
\* store, or its token cannot be obtained), operations k+1..n are never
\* attempted and commit fails with operation k's error.
C14_FailureAborts ==
    /\ \A j \in 1 .. Len(batch.statuses) :
           ~Is2xx(batch.statuses[j].status)
               => /\ \A i \in 1 .. Len(batch.issued) :
                         batch.issued[i] <= batch.statuses[j].op
                  /\ batch.pc # "done"
    /\ batch.failedAt # 0
           => /\ batch.pc = "failed"
              /\ \A i \in 1 .. Len(batch.issued) :
                     batch.issued[i] < batch.failedAt

\* The part of C14 that holds: when an operation throws (its token cannot
\* be obtained), the earlier operations stay applied, the later ones are
\* never issued and commit fails with that operation's error.
C14_ThrowAborts ==
    batch.failedAt # 0
        => /\ batch.pc = "failed"
           /\ batch.error = "Failed to get access token: Invalid JWT Signature."
           /\ batch.issued = [j \in 1 .. (batch.failedAt - 1) |-> j]
           /\ Completed = 1 .. (batch.failedAt - 1)

\* The native values the decoder can return.
RECURSIVE IsNative(_)
IsNative(x) ==
    /\ "t" \in DOMAIN x
    /\ CASE x.t \in {"null", "string", "boolean"} -> TRUE
         [] x.t = "number" -> TRUE
         [] x.t = "array" -> \A i \in 1 .. Len(x.v) : IsNative(x.v[i])
         [] x.t = "object" -> \A k \in DOMAIN x.v : IsNative(x.v[k])
         [] OTHER -> FALSE

ExpectedTag(v) ==
    CASE v.t \in {"null", "undefined"} -> "nullValue"
      [] v.t = "string" -> "stringValue"
      [] v.t = "number" -> IF "x2" \in DOMAIN v /\ v.x2 % 2 = 0
                           THEN "integerValue" ELSE "doubleValue"
      [] v.t = "boolean" -> "booleanValue"
      [] v.t = "array" -> "arrayValue"
      [] v.t = "object" -> "mapValue"
      [] OTHER -> "stringValue"

\* C16: toFirestoreValue gives a value exactly one tag, by the order null,
\* string, number (integerValue with the decimal string when it has no
\* fractional part, else doubleValue), boolean, array (elements encoded in
\* order), mapping (entries encoded), anything else as its string
\* conversion; and the example document encodes as stated.
C16_OneTagInOrder ==
    /\ codec.op = "toFirestoreValue"
           => /\ DOMAIN codec.wire = {ExpectedTag(codec.v)}
              /\ codec.v.t = "array"
                     => /\ DOMAIN codec.wire.arrayValue = {"values"}
                        /\ Len(codec.wire.arrayValue.values) = Len(codec.v.v)
                        /\ \A i \in 1 .. Len(codec.v.v) :
                               DOMAIN codec.wire.arrayValue.values[i]
                                   = {ExpectedTag(codec.v.v[i])}
              /\ codec.v.t = "object"
                     => /\ DOMAIN codec.wire.mapValue = {"fields"}
                        /\ DOMAIN codec.wire.mapValue.fields = DOMAIN codec.v.v
                        /\ \A k \in DOMAIN codec.v.v :
                               DOMAIN codec.wire.mapValue.fields[k]
                                   = {ExpectedTag(codec.v.v[k])}
              /\ codec.v = Num(42) => codec.wire.integerValue = <<"4", "2">>
              /\ codec.v = Num(-7) => codec.wire.integerValue = <<"-", "7">>
              /\ codec.v = Half => codec.wire.doubleValue = Half
              /\ codec.v = Fn("f") => codec.wire.stringValue = "f"
    /\ (codec.op = "objectToDoc" /\ codec.v = Example)
           => codec.wire
                  = [fields |->
                        [amount |-> [integerValue |-> <<"4", "2">>],
                         currency |-> [stringValue |-> "USDT"],
                         tags |-> [arrayValue |->
                                      [values |-> <<[stringValue |-> "a"],
                                                    [stringValue |-> "b"]>>]]]]

\* The example document has been encoded.
C16_Witness ==
    /\ codec.op = "objectToDoc"
    /\ codec.v = Example
    /\ DOMAIN codec.wire.fields.tags = {"arrayValue"}

\* C17: parseFirestoreValue returns a native value for every wire value with
\* a supported tag, an arrayValue without values and a mapValue without
\* fields included, and null for a wire value with no recognized tag.
C17_ParseTotal ==
    codec.op = "parseFirestoreValue"
        => /\ IsNative(codec.back)
           /\ DOMAIN codec.wire \cap SupportedTags = {} => codec.back = Null
           /\ codec.wire = [arrayValue |-> EmptyObject] => codec.back = Arr(<<>>)
           /\ codec.wire = [mapValue |-> EmptyObject] => codec.back = Null

\* An array holding an arrayValue without values has been decoded.
C17_Witness ==
    /\ codec.op = "parseFirestoreValue"
    /\ codec.wire = [arrayValue |-> [values |-> <<[arrayValue |-> EmptyObject]>>]]
    /\ codec.back = Arr(<<Arr(<<>>)>>)

SupportedOps == {"==", "<", ">", "<=", ">="}

\* The field, and the encoded value, of a wire fieldFilter are those of f.
Carries(w, f) ==
    /\ DOMAIN w = {"fieldFilter"}
    /\ w.fieldFilter.field.fieldPath = f.field
    /\ w.fieldFilter.value = toFirestoreValue(f.value)

\* C18: the structured query sent by get() has no where clause when the
\* query has no filter, the bare fieldFilter when it has one, and a
\* compositeFilter with op AND listing the filters in the order they were
\* added when it has two or more.
C18_WhereClauseShape ==
    (query.exec.op = "get" /\ query.exec.sent)
        => LET fs == query.exec.filters
               sq == query.exec.body.structuredQuery
           IN /\ Len(fs) = 0 => "where" \notin DOMAIN sq
              /\ Len(fs) = 1 => ("where" \in DOMAIN sq /\ Carries(sq.where, fs[1]))
              /\ Len(fs) >= 2
                     => /\ "where" \in DOMAIN sq
                        /\ DOMAIN sq.where = {"compositeFilter"}
                        /\ sq.where.compositeFilter.op = "AND"
                        /\ Len(sq.where.compositeFilter.filters) = Len(fs)
                        /\ \A i \in 1 .. Len(fs) :
                               Carries(sq.where.compositeFilter.filters[i], fs[i])

\* A query with two filters and a limit has been sent with a compositeFilter.
C18_Witness ==
    /\ query.exec.op = "get"
    /\ query.exec.sent
    /\ Len(query.exec.filters) = 2
    /\ query.exec.limitCount = Num(2)
    /\ DOMAIN query.exec.body.structuredQuery.where = {"compositeFilter"}

\* C19: executing a query with a filter whose operator is not one of ==, <,
\* >, <=, >= fails with a ValidationError and sends nothing to the store.
C19_UnsupportedOperatorRejected ==
    (query.exec.op = "get"
        /\ \E i \in 1 .. Len(query.exec.filters) :
               query.exec.filters[i].op \notin SupportedOps)
        => /\ ~query.exec.sent
           /\ query.exec.threw
           /\ query.exec.result = [error |-> "ValidationError"]

\* One where or limit call: every query object that existed keeps its
\* filters and its limit, and the one new object has the receiver's filters
\* in order followed by the added filter, and the receiver's limit unless
\* limit(n) gave another.
BuilderStep ==
    /\ \A r \in 1 .. Len(query.refs) :
           /\ r <= Len(query'.refs)
           /\ FiltersOf(query', r) = FiltersOf(query, r)
           /\ query'.refs[r].limitCount = query.refs[r].limitCount
           /\ query'.refs[r].collection = query.refs[r].collection
    /\ Len(query'.refs) # Len(query.refs)
           => LET b == query'.built
                  n == Len(query'.refs)
                  filters == IF b.recv = 0 THEN <<>> ELSE FiltersOf(query, b.recv)
                  limitCount == IF b.recv = 0 THEN Null
                                ELSE query.refs[b.recv].limitCount
              IN /\ n = Len(query.refs) + 1
                 /\ b.new = n
                 /\ query'.refs[n].collection = CollectionName
                 /\ FiltersOf(query', n)
                        = IF b.op = "where" THEN Append(filters, b.arg) ELSE filters
                 /\ query'.refs[n].limitCount
                        = IF b.op = "limit" THEN b.arg ELSE limitCount

\* C20: where and limit on a CollectionRef or a QueryRef return a new query
\* and leave the receiver's filters and limit unchanged; the new query has
\* the receiver's filters followed by the added one, and the receiver's
\* limit unless limit(n) replaced it.
C20_BuildersPure == [][BuilderStep]_vars

\* where was called on a query that has a filter and a limit: the new query
\* has both filters and the limit, the receiver still has its one filter.
C20_Witness ==
    /\ query.built.op = "where"
    /\ query.built.recv # 0
    /\ Len(FiltersOf(query, query.built.recv)) = 1
    /\ query.refs[query.built.recv].limitCount = Num(2)
    /\ Len(FiltersOf(query, query.built.new)) = 2
    /\ query.refs[query.built.new].limitCount = Num(2)

\* The positions of the envelopes that hold a document, and the number of
\* those up to position i.
DocumentPositions(results) ==
    {i \in 1 .. Len(results) : "document" \in DOMAIN results[i]}
Rank(results, i) == Cardinality({k \in DocumentPositions(results) : k <= i})

\* C21: get() returns exactly the documents of the envelopes that hold one,
\* in the store's order, each with the last segment of its resource name as
\* id; the other envelopes contribute nothing, and size and empty match.
C21_ResultDocuments ==
    (query.exec.op = "get" /\ query.exec.sent
        /\ query.exec.resp.json /\ query.exec.resp.array)
        => LET results == query.exec.resp.results
               snap == query.exec.result
           IN /\ ~query.exec.threw
              /\ Len(snap.docs) = Cardinality(DocumentPositions(results))
              /\ \A i \in DocumentPositions(results) :
                     LET d == snap.docs[Rank(results, i)]
                         document == results[i].document
                     IN /\ d.name = document.name
                        /\ d.id = document.name[Len(document.name)]
                        /\ d.id \in AllIds
                        /\ "fields" \in DOMAIN d <=> "fields" \in DOMAIN document
                        /\ "fields" \in DOMAIN d => d.fields = document.fields
              /\ snap.size = Len(snap.docs)
              /\ snap.empty <=> Len(snap.docs) = 0

\* An answer of three envelopes, two of them with a document, was returned
\* as a snapshot of two documents.
C21_Witness ==
    /\ query.exec.op = "get"
    /\ query.exec.sent
    /\ Len(query.exec.resp.results) = 3
    /\ ~query.exec.threw
    /\ query.exec.result.size = 2
    /\ query.exec.result.docs[1].id = "d1"
    /\ query.exec.result.docs[2].id = "n1"

\* One delete() whose request was sent: on an absent document it returns
\* normally and the store is unchanged, and straight after a delete of the
\* same document that the store processed it leaves the store as it was.
DeleteStep ==
    (last'.op = "delete" /\ last'.nreq = 1)
        => /\ ~store[last'.id].exists => (~last'.threw /\ store' = store)
           /\ (last.op = "delete" /\ last.id = last'.id /\ last.nreq = 1
                  /\ Is2xx(last.status))
                  => store' = store

\* C22: delete() is idempotent: deleting an absent document returns
\* normally and changes nothing, and deleting a document twice leaves the
\* store as deleting it once does.
C22_DeleteIdempotent == [][DeleteStep]_vars

\* A delete of an absent document was processed by the store and returned.
C22_Witness ==
    /\ last.op = "delete"
    /\ last.nreq = 1
    /\ ~last.pre.exists
    /\ Is2xx(last.status)
    /\ ~last.threw
    /\ store[last.id] = Absent


\* An add() the store processed: the document it names was absent and now
\* holds exactly the supplied fields, every other document is unchanged,
\* and the id returned is that document's.
AddCreates ==
    /\ ~store[last'.id].exists
    /\ store' = [store EXCEPT ![last'.id] = Stored(objectToDoc(last'.obj).fields)]
    /\ ~last'.threw
    /\ last'.result = [id |-> Str(last'.id)]

AddProcessed == last'.op = "add" /\ last'.nreq = 1 /\ Is2xx(last'.status)

HasFields(d) == d.exists /\ DOMAIN d.fields # {}

\* The store processed the read of the last operation, or applied its
\* write.
Processed == last.nreq = 1 /\ (Is2xx(last.status) \/ last.status = 404)
Applied == last.nreq = 1 /\ Is2xx(last.status)

\* C24: after any sequence of set, update and delete, a get() the store
\* processes reports exists = true exactly when the stored document has a
\* fields mapping: true after a set with at least one field, false after a
\* delete and for a document that was never written.
C24_ExistsIffFields ==
    /\ (last.op = "get" /\ Processed)
           => /\ ~last.threw
              /\ last.result.exists <=> HasFields(store[last.id])
    /\ \A id \in AllIds :
           /\ FollowingGet(store, id).result.exists <=> HasFields(store[id])
           /\ ~store[id].exists => ~FollowingGet(store, id).result.exists
    /\ (last.op = "set" /\ Applied /\ Keys(last.obj) # {})
           => FollowingGet(store, last.id).result.exists
    /\ (last.op = "delete" /\ Applied)
           => ~FollowingGet(store, last.id).result.exists

\* A get of a document that is stored without any field reported
\* exists = false.
C24_Witness ==
    /\ last.op = "get"
    /\ Processed
    /\ store[last.id].exists
    /\ ~HasFields(store[last.id])
    /\ ~last.result.exists

\* C25: once initFirebase has set the credential, later initFirebase calls
\* do not change it: firebaseConfig, and the client email, key and project
\* id read by getAccessToken and by store requests, are those of the first
\* initialization.
C25_CredentialSetOnce ==
    app.first # Null
        => /\ firebaseConfig = ConfigOf(app.first)
           /\ (app.use.op = "request" /\ ~app.use.threw)
                  => app.use.projectId = app.first.FIREBASE_PROJECT_ID
           /\ (app.use.op = "request" /\ app.use.signed)
                  => /\ app.use.iss = app.first.FIREBASE_CLIENT_EMAIL
                     /\ app.use.key = Unescape(app.first.FIREBASE_PRIVATE_KEY)

\* C26: over any sequence of approve and reject operations on one payment,
\* through the HTTP API and through Telegram, the user's credits are
\* increased for that payment at most once.
C26_CreditedAtMostOnce == \A p \in PaymentIds : app.credited[p] <= 1

\* The status field of a stored payment.
PaymentStatus(st, p) == Field(Snap(st, p), "status")

\* C27: a payment whose status is approved never becomes rejected.
C27_ApprovedNeverRejected ==
    [][\A p \in DOMAIN store \cap PaymentIds :
          PaymentStatus(store, p) = Str("approved")
              => PaymentStatus(store', p) # Str("rejected")]_vars

\* Every request received has been answered.
AllAnswered == \A s \in Slots : app.reqs[s].pc = "done"

\* The smsCredits field of a stored user.
Credits(st, u) == Field(Snap(st, u), "smsCredits")

\* C28: when deduct requests for a user with c credits are served
\* concurrently, at most c of them succeed and the final credits are c
\* minus the number of successes.
C28_ConcurrentDeduct ==
    AllAnswered =>
        /\ app.deducted <= app.initial
        /\ Credits(store, "u1") = Num(app.initial - app.deducted)

\* C29: after any sequence of submit-payment, approve-payment and deduct
\* operations, every user's smsCredits is a number that is at least 0.
C29_CreditsNonNegative ==
    \A u \in DOMAIN store \cap UserIds :
        store[u].exists =>
            LET c == Credits(store, u)
            IN c.t = "number" /\ ~IsNaN(c) /\ c.x2 >= 0

\* The amount field of a stored payment.
Amount(st, p) == Field(Snap(st, p), "amount")

\* C30: when two approve-payment requests for different pending payments
\* of one user, of amounts a1 and a2, are served concurrently and both
\* succeed, the user's final credits are the initial credits plus
\* floor(a1) plus floor(a2).
C30_ConcurrentApprove ==
    ( /\ AllAnswered
      /\ app.started = 2
      /\ app.reqs[1].id # app.reqs[2].id
      /\ \A s \in Slots : app.reqs[s].kind = "approve-payment"
                             /\ app.reqs[s].status = 200 )
        => Credits(store, "u1") =
               Plus(Plus(Num(app.initial), Floor(Amount(store, "p1"))),
                    Floor(Amount(store, "p2")))

\* C31: whenever approve-payment has finished and the payment's status is
\* approved, the user's credits have been increased by floor(amount), also
\* when the user read or write after the status update has failed.
C31_ApprovedImpliesCredited ==
    (AllAnswered /\ PaymentStatus(store, "p1") = Str("approved"))
        => Credits(store, "u1") =
               Plus(Num(app.initial), Floor(Amount(store, "p1")))

\* C32: after a pending payment is approved through the Telegram webhook,
\* the user's smsCredits is a number: the previous value plus
\* floor(amount).
C32_TelegramIncrement ==
    ( /\ app.started = 1
      /\ app.reqs[1].kind = "telegram-approve"
      /\ app.reqs[1].pc = "done"
      /\ app.credited["p1"] = 1 )
        => Credits(store, "u1") =
               Plus(Num(app.initial), Floor(Amount(store, "p1")))

\* C33: a deduct request of the handler that uses db.runTransaction, for a
\* user with at least one credit, succeeds: it is answered with success
\* and the user's smsCredits has decreased by exactly 1.
C33_TransactionDeducts ==
    \A s \in Slots :
        ( /\ app.started = 1
          /\ app.reqs[s].kind = "deduct-transaction"
          /\ app.reqs[s].pc = "done"
          /\ app.reqs[s].id = "u1"
          /\ app.initial >= 1 )
            => /\ app.reqs[s].status = 200
               /\ Credits(store, "u1") = Num(app.initial - 1)

\* The fields of a stored document other than those of ks.
OtherFields(d, ks) == [k \in DOMAIN d.fields \ ks |-> d.fields[k]]

\* A step of the deduct handler without a transaction, for a user u whose
\* credits are prev: 404 for a missing document and 402 for credits
\* absent or <= 0, writing nothing; otherwise smsCredits = prev - 1 is
\* written with lastUsed, the other fields and documents are kept, and
\* the response carries that value and hasCredits = (value > 0).
DeductStep ==
    LET r == app.reqs[1]
        after == app'.reqs[1]
        u == r.id
    IN (r.kind = "deduct-sms-credit" /\ r.pc # "done" /\ after # r) =>
          IF ~store[u].exists
          THEN after.pc = "done" /\ after.status = 404 /\ store' = store
          ELSE LET prev == Credits(store, u)
               IN IF prev = Undefined \/ prev.x2 <= 0
                  THEN /\ after.pc = "done" /\ after.status = 402
                       /\ store' = store
                  ELSE IF r.pc = "getUser"
                  THEN after.pc = "updateUser" /\ store' = store
                  ELSE /\ after.pc = "done" /\ after.status = 200
                       /\ Credits(store', u) = [prev EXCEPT !.x2 = @ - 2]
                       /\ "lastUsed" \in DOMAIN store'[u].fields
                       /\ OtherFields(store'[u], {"smsCredits", "lastUsed"})
                            = OtherFields(store[u], {"smsCredits", "lastUsed"})
                       /\ \A v \in DOMAIN store \ {u} : store'[v] = store[v]
                       /\ after.data.smsCredits = Credits(store', u)
                       /\ after.data.hasCredits = (prev.x2 - 2 > 0)

TransactionStep ==
    /\ (batch.pc = "callback" \/ batch.error = "callback")
           => (store' = store /\ batch'.issued = <<>> /\ batch'.inflight = {})
    /\ batch'.issued # batch.issued
           => /\ batch.pc = "committing"
              /\ batch'.issued = Append(batch.issued, Len(batch.issued) + 1)
              /\ batch'.operations = batch.operations

\* C35: runTransaction applies none of the operations the callback has
\* enqueued if the callback throws; operations reach the store only
\* after the callback has completed, during commit, in insertion order.
C35_ThrowAppliesNothing == [][TransactionStep]_vars

\* The callback has thrown after enqueuing two operations.
C35_Witness ==
    /\ batch.pc = "failed"
    /\ batch.error = "callback"
    /\ Len(batch.operations) >= 2
    /\ batch.issued = <<>>

\* The full name of a stored user, in lower case.
StoredName(st, u) == ToLowerCase(ExistingFullName(Snap(st, u)))

\* C36: after any sequence of register-main-app-user requests, no two
\* user documents with different ids have the same non-empty full name,
\* compared without regard to case.
C36_NamesUnique ==
    \A u \in UserEmails, v \in UserEmails :
        (u # v /\ store[u].exists /\ store[v].exists
              /\ StoredName(store, u) # <<>>)
            => StoredName(store, u) # StoredName(store, v)

\* C37: under any interleaving of register requests for an email, at most
\* one registration notification is sent for it and createdAt is written
\* at most once.
C37_CreatedOnce ==
    \A e \in UserEmails : app.notified[e] <= 1 /\ app.created[e] <= 1

\* The update of request r is from a chat other than the admin chat, or
\* no admin chat is configured.
FromOtherChat(r) ==
    /\ r.body # Null
    /\ \/ app.adminChatId = Undefined
       \/ Str(DecStr(r.body.chatId)) # app.adminChatId

\* A step of the webhook for an update from another chat ends the
\* handling and leaves every document as it was.
UnauthorizedStep ==
    \A s \in Slots :
        LET r == app.reqs[s]
            after == app'.reqs[s]
        IN (r.pc # "done" /\ FromOtherChat(r) /\ after # r)
               => (after.pc = "done" /\ store' = store)

\* C38: a Telegram update whose chat id differs from
\* TELEGRAM_ADMIN_CHAT_ID, or that arrives while it is unset, changes no
\* payment and no user document.
C38_UnauthorizedChangesNothing == [][UnauthorizedStep]_vars

\* An approval sent from a chat other than the configured admin chat has
\* been handled, and the payment is still pending.
C38_Witness ==
    /\ app.reqs[1].pc = "done"
    /\ app.reqs[1].body # Null
    /\ app.adminChatId # Undefined
    /\ Str(DecStr(app.reqs[1].body.chatId)) # app.adminChatId
    /\ app.reqs[1].body.action = "approve"
    /\ PaymentStatus(store, "p1") = Str("pending")

\* C39: for every n >= 0 passed to limit(n), the structured query that
\* get() sends carries limit = n; a query on which limit was never called
\* carries no limit.
C39_LimitCarried ==
    (query.exec.op = "get" /\ query.exec.sent) =>
        LET structuredQuery == query.exec.body.structuredQuery
        IN IF query.exec.limitCount = Null
           THEN "limit" \notin DOMAIN structuredQuery
           ELSE /\ "limit" \in DOMAIN structuredQuery
                /\ structuredQuery.limit = query.exec.limitCount

====
